---- MODULE Spec2Model ----
(***************************************************************************)
(* Model of sequences/core.py: the sequence grammar, the format renderers, *)
(* the item index of a FileSequence and AbstractSequence.rename.           *)
(*                                                                         *)
(* A Python string is a sequence of one-character strings; None is the     *)
(* model value None; a raised exception is the name of its class.          *)
(***************************************************************************)
EXTENDS Integers, Sequences, FiniteSets, TLC

None    == "None"
NoneStr == <<"None">>      \* None where a string is expected
NoneNum == -1000           \* None where a number is expected

-----------------------------------------------------------------------------
(* Python string primitives                                                *)

DigitChars == <<"0", "1", "2", "3", "4", "5", "6", "7", "8", "9">>

IsDigitChar(c) == \E i \in 1..Len(DigitChars) : DigitChars[i] = c

DigitVal(c) == (CHOOSE i \in 1..Len(DigitChars) : DigitChars[i] = c) - 1

\* The letters of the model's alphabet: with the digits and "_" they are
\* what \w matches.
Letters == {"a", "d", "e", "f", "i", "m", "r", "s", "t", "x"}

IsWordChar(c) == IsDigitChar(c) \/ c \in Letters \/ c = "_"

\* str.isdigit(): non-empty and made of decimal digits only.
isdigit(s) == Len(s) > 0 /\ \A i \in 1..Len(s) : IsDigitChar(s[i])

\* int(s) of a digit string, base 10.
RECURSIVE int(_)
int(s) ==
    IF Len(s) = 0 THEN 0
    ELSE int(SubSeq(s, 1, Len(s) - 1)) * 10 + DigitVal(s[Len(s)])

\* str(n) of an integer.
RECURSIVE str(_)
str(n) ==
    IF n < 0 THEN <<"-">> \o str(0 - n)
    ELSE IF n < 10 THEN <<DigitChars[n + 1]>>
    ELSE str(n \div 10) \o <<DigitChars[(n % 10) + 1]>>

Repeat(c, n) == [i \in 1..n |-> c]

\* '%0<p>d' % n and '{:0<p>d}'.format(n): n in decimal, filled with zeros
\* after the sign up to width p, never truncated.
ZeroPad(n, p) ==
    LET d    == str(IF n < 0 THEN 0 - n ELSE n)
        sign == IF n < 0 THEN <<"-">> ELSE <<>>
        fill == p - Len(d) - Len(sign)
    IN  sign \o (IF fill > 0 THEN Repeat("0", fill) ELSE <<>>) \o d

\* s[a:b] with 0-based a, b and Python's clipping to the string.
Slice(s, a, b) ==
    LET lo == IF a < 0 THEN 0 ELSE a
        hi == IF b > Len(s) THEN Len(s) ELSE b
    IN  IF hi <= lo THEN <<>> ELSE SubSeq(s, lo + 1, hi)

startswith(s, p) == Len(p) <= Len(s) /\ SubSeq(s, 1, Len(p)) = p

endswith(s, p) ==
    Len(p) <= Len(s) /\ SubSeq(s, Len(s) - Len(p) + 1, Len(s)) = p

\* s.lstrip(chars) and s.rstrip(chars): chars is a set of characters.
RECURSIVE lstrip(_, _)
lstrip(s, chars) ==
    IF Len(s) > 0 /\ s[1] \in chars THEN lstrip(Tail(s), chars) ELSE s

RECURSIVE rstrip(_, _)
rstrip(s, chars) ==
    IF Len(s) > 0 /\ s[Len(s)] \in chars
    THEN rstrip(SubSeq(s, 1, Len(s) - 1), chars)
    ELSE s

\* s.replace(a, b) for a one-character a and a string b.
RECURSIVE replace(_, _, _)
replace(s, a, b) ==
    IF Len(s) = 0 THEN <<>>
    ELSE (IF s[1] = a THEN b ELSE <<s[1]>>) \o replace(Tail(s), a, b)

Contains(s, c) == \E i \in 1..Len(s) : s[i] = c

SeqRange(s) == {s[i] : i \in 1..Len(s)}

-----------------------------------------------------------------------------
(* The sequence grammar                                                    *)

\* Length of the longest run of digits / of '#' / of \w in s from i on.
RECURSIVE DigitRun(_, _)
DigitRun(s, i) ==
    IF i <= Len(s) /\ IsDigitChar(s[i]) THEN 1 + DigitRun(s, i + 1) ELSE 0

RECURSIVE PoundRun(_, _)
PoundRun(s, i) ==
    IF i <= Len(s) /\ s[i] = "#" THEN 1 + PoundRun(s, i + 1) ELSE 0

RECURSIVE WordRun(_, _)
WordRun(s, i) ==
    IF i <= Len(s) /\ IsWordChar(s[i]) THEN 1 + WordRun(s, i + 1) ELSE 0

At(s, i) == IF i >= 1 /\ i <= Len(s) THEN s[i] ELSE None

\* The five alternatives of the group 'sequence', tried at position i of s
\* in the order of the pattern.  Each quantifier is greedy and is followed
\* by a character it cannot match, so an alternative has one way to match.
\* The value is the name of the alternative and the length matched.
NoSlot == [kind |-> None, len |-> 0]

SlotAt(s, i) ==
    LET n  == DigitRun(s, i)
        p  == PoundRun(s, i)
        rn == DigitRun(s, i + 3)
        w  == WordRun(s, i + 1)
        fn == DigitRun(s, i + w + 2)
        pn == DigitRun(s, i + 1)
    IN  IF n > 0 THEN [kind |-> "nums", len |-> n]
        ELSE IF p > 0 THEN [kind |-> "pounds", len |-> p]
        ELSE IF /\ At(s, i) = "\\" /\ At(s, i + 1) = "d" /\ At(s, i + 2) = "{"
                /\ rn > 0 /\ At(s, i + 3 + rn) = "}"
             THEN [kind |-> "regex", len |-> rn + 4]
        ELSE IF /\ At(s, i) = "{" /\ w > 0 /\ At(s, i + 1 + w) = ":"
                /\ fn > 0 /\ At(s, i + w + 2 + fn) = "d"
                /\ At(s, i + w + 3 + fn) = "}"
             THEN [kind |-> "formatstring", len |-> w + fn + 4]
        ELSE IF At(s, i) = "%" /\ pn > 0 /\ At(s, i + 1 + pn) = "d"
             THEN [kind |-> "percent", len |-> pn + 2]
        ELSE NoSlot

IsSpace(c) == c = " "

\* (?P<suffix>.*(?P<ext>\.\S+$)|$) against the rest of the string: the rest
\* is empty, or it holds a '.' followed to the end by one or more
\* non-blank characters.
ExtStarts(rest) ==
    {k \in 1..Len(rest) :
        /\ rest[k] = "."
        /\ k < Len(rest)
        /\ \A j \in (k + 1)..Len(rest) : ~IsSpace(rest[j])}

SuffixMatches(rest) == rest = <<>> \/ ExtStarts(rest) # {}

\* The greedy .* leaves the shortest possible ext.
ExtOf(rest) ==
    IF ExtStarts(rest) = {} THEN NoneStr
    ELSE LET k == CHOOSE x \in ExtStarts(rest) : \A y \in ExtStarts(rest) : y <= x
         IN  SubSeq(rest, k, Len(rest))

Min(S) == CHOOSE x \in S : \A y \in S : x <= y

NoMatch ==
    [kind |-> None, start |-> 0, end |-> 0, prefix |-> NoneStr,
     sequence |-> NoneStr, suffix |-> NoneStr, ext |-> NoneStr]

\* DEFAULT_SEQUENCE_PATTERN.search(s): the lazy prefix makes the match start
\* the slot at the first position from which one alternative reaches the
\* end of the string.  start and end are those of the group 'sequence'
\* (0-based, end exclusive), as match.start() and match.end() give them.
DEFAULT_SEQUENCE_PATTERN(s) ==
    LET ends(i, slot) == slot # NoSlot /\ i + slot.len - 1 = Len(s)
        found(i, slot) ==
            [kind     |-> slot.kind,
             start    |-> i - 1,
             end      |-> Len(s),
             prefix   |-> SubSeq(s, 1, i - 1),
             sequence |-> SubSeq(s, i, Len(s)),
             suffix   |-> NoneStr,
             ext      |-> NoneStr]
        at(i) == found(i, SlotAt(s, i))
        first(starts) == IF starts = {} THEN NoMatch ELSE at(Min(starts))
    IN  first({i \in 1..Len(s) : ends(i, SlotAt(s, i))})

\* DEFAULT_FILE_SEQUENCE_PATTERN.search(s): the lazy prefix stops at the
\* first '.' that is followed by a slot and by a suffix the pattern accepts.
DEFAULT_FILE_SEQUENCE_PATTERN(s) ==
    LET rest(i, slot) == SubSeq(s, i + 1 + slot.len, Len(s))
        ends(i, slot) == slot # NoSlot /\ SuffixMatches(rest(i, slot))
        groups(i, slot, suffix) ==
            [kind     |-> slot.kind,
             start    |-> i,
             end      |-> i + slot.len,
             prefix   |-> SubSeq(s, 1, i - 1),
             sequence |-> SubSeq(s, i + 1, i + slot.len),
             suffix   |-> suffix,
             ext      |-> ExtOf(suffix)]
        found(i, slot) == groups(i, slot, rest(i, slot))
        at(i) == found(i, SlotAt(s, i + 1))
        first(dots) == IF dots = {} THEN NoMatch ELSE at(Min(dots))
    IN  first({i \in 1..Len(s) : s[i] = "." /\ ends(i, SlotAt(s, i + 1))})

\* The two kinds of sequence of the model and their class attributes.
Plain == "AbstractSequence"
File  == "FileSequence"

formatStringKey(cls) == <<"i", "t", "e", "m">>

regex(cls, s) ==
    IF cls = File THEN DEFAULT_FILE_SEQUENCE_PATTERN(s)
    ELSE DEFAULT_SEQUENCE_PATTERN(s)

\* groups[key][1:].split(':')[0] of a 'formatstring' group.
FormatKeyOf(group) ==
    LET body == Tail(group)
        colon == Min({k \in 1..Len(body) : body[k] = ":"})
    IN  SubSeq(body, 1, colon - 1)

\* A validation that compares the key of a template placeholder with the
\* whole placeholder, and so refuses every key.
ValidateNoKey(cls, s) ==
    LET checked(m) ==
            IF m = NoMatch THEN [err |-> "ValueError", match |-> NoMatch]
            ELSE IF m.kind = "formatstring" /\ m.sequence # formatStringKey(cls)
                 THEN [err |-> "ValueError", match |-> NoMatch]
            ELSE [err |-> None, match |-> m]
    IN  IF s = NoneStr THEN [err |-> "TypeError", match |-> NoMatch]
        ELSE checked(regex(cls, s))

\* validate_path without the folder probe: the match, or the exception; a
\* path that is no string (None) raises TypeError.
validate_path(cls, s) ==
    LET checked(m) ==
            IF m = NoMatch THEN [err |-> "ValueError", match |-> NoMatch]
            ELSE IF /\ m.kind = "formatstring"
                    /\ FormatKeyOf(m.sequence) # formatStringKey(cls)
                 THEN [err |-> "ValueError", match |-> NoMatch]
            ELSE [err |-> None, match |-> m]
    IN  IF s = NoneStr THEN [err |-> "TypeError", match |-> NoMatch]
        ELSE checked(regex(cls, s))

\* _parse_padding_from_match: str.lstrip and str.rstrip take a set of
\* characters, not a prefix.
_parse_padding_from_match(cls, m) ==
    CASE m.kind = "nums"   -> Len(m.sequence)
      [] m.kind = "pounds" -> Len(m.sequence)
      [] m.kind = "regex"  ->
            int(rstrip(lstrip(m.sequence, {"\\", "d", "+", "{"}), {"}"}))
      [] m.kind = "formatstring" ->
            int(rstrip(lstrip(m.sequence,
                              SeqRange(formatStringKey(cls)) \cup {"{", ":"}),
                       {"d", "}"}))
      [] m.kind = "percent" ->
            int(rstrip(lstrip(m.sequence, {"%"}), {"d"}))

\* _base_sequence_items: the source string on both sides of the slot.
_base_sequence_items(s, m) ==
    <<Slice(s, 0, m.start), Slice(s, m.end, Len(s))>>

-----------------------------------------------------------------------------
(* The format renderers                                                    *)

PoundSubstr(padding) == Repeat("#", padding)

FormatSubstr(formatKey, padding) ==
    <<"{">> \o formatKey \o <<":", "0">> \o str(padding) \o <<"d", "}">>

PercentSubstr(padding) == <<"%", "0">> \o str(padding) \o <<"d">>

RegexSubstr(padding) == <<"\\", "d", "{">> \o str(padding) \o <<"}">>

\* substr.join(self._base_sequence_items)
Join(substr, base) == base[1] \o substr \o base[2]

-----------------------------------------------------------------------------
(* utils/general.py and os.path                                            *)

\* path_normalize(filename) with its default arguments: every backslash
\* becomes a slash, then '//' becomes '/' except at the very start.
RECURSIVE CollapseSlashes(_)
CollapseSlashes(s) ==
    IF Len(s) < 2 THEN s
    ELSE IF s[1] = "/" /\ s[2] = "/" THEN <<"/">> \o CollapseSlashes(Tail(Tail(s)))
    ELSE <<s[1]>> \o CollapseSlashes(Tail(s))

path_normalize(filename) ==
    LET f == replace(filename, "\\", <<"/">>)
    IN  IF Len(f) = 0 THEN f ELSE <<f[1]>> \o CollapseSlashes(Tail(f))

\* os.path.dirname(path)
dirname(path) ==
    LET slashes == {k \in 1..Len(path) : path[k] = "/"}
    IN  IF slashes = {} THEN <<>>
        ELSE LET head == SubSeq(path, 1, CHOOSE k \in slashes : \A j \in slashes : j <= k)
             IN  IF rstrip(head, {"/"}) = <<>> THEN head ELSE rstrip(head, {"/"})

\* The folders that exist: the model keeps every file in the root folder.
Folders == {<<"/">>}

-----------------------------------------------------------------------------
(* The sequence object                                                     *)

NoneList  == <<NoneStr>>         \* None where a list of strings is expected
RangeNone == <<<<NoneNum>>>>     \* None where a list of intervals is expected

\* A clearing that leaves the parsed flag as it is.
ClearKeepsParsed(self) ==
    [self EXCEPT !._matches = 0,
                 !._sequence_items = <<>>,
                 !._regex_string = NoneStr,
                 !._built = FALSE,
                 !._range = RangeNone]

\* _clearProperties
_clearProperties(self) ==
    [self EXCEPT !._matches = 0,
                 !._primary_match = NoMatch,
                 !._format_type = None,
                 !._current_item = NoneStr,
                 !._current_item_number = NoneNum,
                 !._sequence_items = <<>>,
                 !._regex_string = NoneStr,
                 !._parsed = FALSE,
                 !._built = FALSE,
                 !._prefix = NoneStr,
                 !._suffix = NoneStr,
                 !._range = RangeNone]

\* FileSequence.validate_path: the grammar, then the folder probe.
FileValidatePath(self) ==
    LET probed(v) ==
            IF v.err # None THEN v
            ELSE IF /\ self.cls = File
                    /\ self.validateExists
                    /\ dirname(self._string) \notin Folders
                 THEN [err |-> "ValueError", match |-> NoMatch]
            ELSE v
    IN  probed(validate_path(self.cls, self._string))

\* _parse_values: the cached properties are dropped first, so they stay
\* dropped when validate_path raises.
_parse_values(self) ==
    LET parsed(dropped, v, m) ==
            IF v.err # None THEN [err |-> v.err, self |-> dropped]
            ELSE [err  |-> None,
                  self |-> [dropped EXCEPT
                      !._matches = @ + 1,
                      !._primary_match = m,
                      !._format_type = m.kind,
                      !._current_item = m.sequence,
                      !._current_item_number =
                          IF m.kind = "nums" THEN int(m.sequence) ELSE @,
                      !._padding = _parse_padding_from_match(self.cls, m),
                      !._base_sequence_items = _base_sequence_items(self._string, m),
                      !._parsed = TRUE]]
        validated(v) ==
            parsed([self EXCEPT !._prefix = NoneStr, !._suffix = NoneStr,
                                !._range = RangeNone], v, v.match)
    IN  validated(FileValidatePath(self))

\* "if not self.parsed: self._parse_values()"
Parsed(self) ==
    IF self._parsed THEN [err |-> None, self |-> self] ELSE _parse_values(self)

\* The properties prefix and suffix of a parsed sequence (the group of the
\* match, '' when the pattern has no such group).
prefix(self) == self._primary_match.prefix

suffix(self) ==
    IF self._primary_match.suffix = NoneStr THEN <<>> ELSE self._primary_match.suffix

\* A membership test that compares the prefix and the suffix only.
PartByPrefixAndSuffix(self, string) ==
    /\ startswith(string, prefix(self))
    /\ endswith(string, suffix(self))

\* is_part_of_sequence of a parsed sequence
is_part_of_sequence(self, string) ==
    /\ Len(self._string) = Len(string)
    /\ startswith(string, prefix(self))
    /\ endswith(string, suffix(self))

\* num of a parsed sequence: the number, None when the span is no digit
\* string, ValueError when the string is no part of the sequence.
ValueErrorNum == -2000

num(self, string) ==
    IF ~is_part_of_sequence(self, string) THEN ValueErrorNum
    ELSE LET start == self._primary_match.start
             span  == Slice(string, start, start + self._padding)
         IN  IF isdigit(span) THEN int(span) ELSE NoneNum

\* get_format_string, get_pound_string and get_percent_string of a parsed
\* sequence; padding None stands for the sequence's own padding.
PaddingOr(self, padding) == IF padding = NoneNum THEN self._padding ELSE padding

get_format_string(self, padding) ==
    Join(FormatSubstr(formatStringKey(self.cls), PaddingOr(self, padding)),
         self._base_sequence_items)

get_pound_string(self, padding) ==
    Join(PoundSubstr(PaddingOr(self, padding)), self._base_sequence_items)

get_percent_string(self, padding) ==
    Join(PercentSubstr(PaddingOr(self, padding)), self._base_sequence_items)

\* get_regex_string: the first result is kept and returned by every later
\* call, whatever its padding.
RegexRendered(self, padding) ==
    replace(Join(RegexSubstr(PaddingOr(self, padding)), self._base_sequence_items),
            "[", <<"\\", "[">>)

get_regex_string(self, padding) ==
    IF self._regex_string # NoneStr THEN self._regex_string
    ELSE RegexRendered(self, padding)

\* get_string and get_path: get_format_string(padding).format(item=number).
\* str.format reads every brace of the template, so a brace outside the slot
\* makes it raise; so does the number None.
ErrorStr == <<"Error">>

get_string(self, itemNumber, padding) ==
    IF \/ itemNumber \in {NoneNum, ValueErrorNum}
       \/ \E k \in 1..2 : \/ Contains(self._base_sequence_items[k], "{")
                          \/ Contains(self._base_sequence_items[k], "}")
    THEN ErrorStr
    ELSE Join(ZeroPad(itemNumber, PaddingOr(self, padding)), self._base_sequence_items)

-----------------------------------------------------------------------------
(* The item index                                                          *)

\* A Python dict is a function; d[k] = v:
DictSet(d, k, v) == [x \in (DOMAIN d) \cup {k} |-> IF x = k THEN v ELSE d[x]]

EmptyDict == [x \in {} |-> <<>>]

RECURSIVE SortedKeys(_)
SortedKeys(S) ==
    IF S = {} THEN <<>> ELSE <<Min(S)>> \o SortedKeys(S \ {Min(S)})

\* sorted(items.items(), key=lambda i: i[0]): the (key, value) pairs in
\* ascending key order; None sorts before every number.
SortedItems(d) ==
    LET keys == SortedKeys(DOMAIN d)
    IN  [i \in 1..Len(keys) |-> <<keys[i], d[keys[i]]>>]

\* FileSequence._build_sequence_items_from_input: the input items that are
\* part of the sequence, keyed by num(), then the source path keyed by
\* sourceNumber.
RECURSIVE InputItems(_, _, _)
InputItems(self, paths, result) ==
    IF paths = <<>> THEN result
    ELSE InputItems(self, Tail(paths),
                    IF is_part_of_sequence(self, paths[1])
                    THEN DictSet(result, num(self, paths[1]), paths[1])
                    ELSE result)

sourceNumber(self) == num(self, self._string)

_build_sequence_items_from_input(self) ==
    LET result == InputItems(self, self._input_items, EmptyDict)
    IN  IF is_part_of_sequence(self, self._string)
        THEN DictSet(result, sourceNumber(self), self._string)
        ELSE result

\* FileSequence._build_sequence_items_from_disk: the files of the folder of
\* the source path that are part of the sequence, hold digits over the slot
\* and no digit right after it; each is stored as get_path(number).
folder(self) == dirname(self._string)

DiskEntries(self, disk) == {e \in DOMAIN disk : dirname(e) = folder(self)}

DiskMember(self, e) ==
    LET start == self._primary_match.start
        end   == start + self._padding
    IN  /\ is_part_of_sequence(self, e)
        /\ end <= Len(e)
        /\ isdigit(Slice(e, start, end))
        /\ ~isdigit(Slice(e, start, end + 1))

_build_sequence_items_from_disk(self, disk) ==
    LET start == self._primary_match.start
        nums  == {int(Slice(e, start, start + self._padding)) :
                     e \in {x \in DiskEntries(self, disk) : DiskMember(self, x)}}
    IN  [n \in nums |-> get_string(self, n, NoneNum)]

\* FileSequence._build_sequence_items_from_perforce: the files the depot
\* lists in the folder of the source path (here the files of the folder)
\* that are part of the sequence, each stored as get_path(number); int()
\* raises ValueError when the slot of one of them holds no number.
_build_sequence_items_from_perforce(self, disk) ==
    LET start   == self._primary_match.start
        end     == start + self._padding
        members == {e \in DiskEntries(self, disk) :
                       is_part_of_sequence(self, e) /\ end <= Len(e)}
    IN  IF \E e \in members : ~isdigit(Slice(e, start, end))
        THEN [err |-> "ValueError", items |-> EmptyDict]
        ELSE [err   |-> None,
              items |-> [n \in {int(Slice(e, start, end)) : e \in members} |->
                            get_string(self, n, NoneNum)]]

\* The class of the object the property sourcePath returns: _sourcePath is
\* path_normalize(path), or sourceFile.path when it is None; a str.
sourcePathClass(self) == "str"

\* isInPerforce(file): False without the module P4, otherwise whether file
\* is an instance of PerforcePath; file is given by its class.
isInPerforce(self, file) ==
    IF ~self.P4 THEN FALSE ELSE file = "PerforcePath"

\* FileSequence._loadSequenceItems: parse if needed, then build once, from
\* the explicit items, from the depot when isInPerforce(self.sourcePath),
\* from the folder otherwise.  lister names the one that was called.
_loadSequenceItems(self, disk) ==
    LET built(s, r, lister) ==
            IF r.err # None
            THEN [err |-> r.err, lister |-> lister, self |-> s]
            ELSE [err  |-> None, lister |-> lister,
                  self |-> [s EXCEPT !._built = TRUE,
                                     !._sequence_items = SortedItems(r.items),
                                     !._prefix = prefix(s),
                                     !._suffix = suffix(s)]]
        build(s) ==
            IF s._input_items # NoneList
            THEN built(s, [err |-> None,
                           items |-> _build_sequence_items_from_input(s)], "input")
            ELSE IF isInPerforce(s, sourcePathClass(s))
            THEN built(s, _build_sequence_items_from_perforce(s, disk), "perforce")
            ELSE built(s, [err |-> None,
                           items |-> _build_sequence_items_from_disk(s, disk)], "disk")
        load(p) ==
            IF p.err # None \/ p.self._built
            THEN [err |-> p.err, self |-> p.self, lister |-> None]
            ELSE build(p.self)
    IN  load(Parsed(self))

\* paths and numbers of a built sequence
paths(self) == [i \in 1..Len(self._sequence_items) |-> self._sequence_items[i][2]]

keys(self) == [i \in 1..Len(self._sequence_items) |-> self._sequence_items[i][1]]

numbers(self) ==
    [i \in 1..Len(self._sequence_items) |-> num(self, self._sequence_items[i][2])]

\* firstNumber: num(firstPath), the source path when there is no item.
firstNumber(self) ==
    IF Len(paths(self)) = 0 THEN sourceNumber(self) ELSE num(self, paths(self)[1])

\* The grouping of range: a new interval starts wherever a number is not
\* its predecessor plus one.
RECURSIVE Runs(_, _)
Runs(nums, acc) ==
    IF nums = <<>> THEN acc
    ELSE IF acc # <<>> /\ acc[Len(acc)][Len(acc[Len(acc)])] + 1 = nums[1]
         THEN Runs(Tail(nums),
                   [acc EXCEPT ![Len(acc)] = <<acc[Len(acc)][1], nums[1]>>])
         ELSE Runs(Tail(nums), Append(acc, <<nums[1]>>))

\* A grouping that never joins neighbours: every number is its own interval.
UngroupedNumbers(nums) == [i \in 1..Len(nums) |-> <<nums[i]>>]

grouped_numbers(nums) == Runs(nums, <<>>)

\* range of a built sequence: the cached value if there is one; ValueError
\* when num() raises, TypeError when a number is None.
range(self) ==
    LET grouped(nums) ==
            IF \E i \in 1..Len(nums) : nums[i] = ValueErrorNum
            THEN [err |-> "ValueError", value |-> RangeNone]
            ELSE IF \E i \in 1..Len(nums) : nums[i] = NoneNum
            THEN [err |-> "TypeError", value |-> RangeNone]
            ELSE [err |-> None, value |-> grouped_numbers(nums)]
    IN  IF self._range # RangeNone THEN [err |-> None, value |-> self._range]
        ELSE grouped(numbers(self))

-----------------------------------------------------------------------------
(* The file system                                                         *)

\* A disk maps each existing path to the content of its file.  The two
\* platforms differ in os.rename onto an existing path.
Posix   == "posix"
Windows == "windows"

exists(disk, path) == path \in DOMAIN disk

\* Whether os.rename(src, dst) raises OSError: no source, or an existing
\* destination on Windows.
RenameRaises(platform, disk, src, dst) ==
    \/ ~exists(disk, src)
    \/ (platform = Windows /\ exists(disk, dst) /\ src # dst)

\* The disk after a successful os.rename(src, dst): dst holds the content
\* of src, whatever it held before.
Move(disk, src, dst) ==
    IF src = dst THEN disk
    ELSE [p \in ((DOMAIN disk) \ {src}) \cup {dst} |->
             IF p = dst THEN disk[src] ELSE disk[p]]

\* One os.rename call as the history of a call records it.
MoveRec(phase, disk, src, dst) ==
    [phase |-> phase, src |-> src, dst |-> dst,
     clobbers |-> (exists(disk, dst) /\ src # dst)]

-----------------------------------------------------------------------------
(* AbstractSequence.rename                                                 *)

\* item.path at line 510.  The loop iterates self.items, an OrderedDict, so
\* item is a key of the index, a number, which has no attribute path:
\* AttributeError.
ItemPath(self, i) == ErrorStr

\* files[i].path: FilestructurePath keeps path_normalize(path) of the item
\* string.  This is the path line 510 would read if the loop iterated
\* self.files.
FilePath(self, i) == path_normalize(paths(self)[i])

\* The old path of a pair of the plan: item.path as line 510 reads it, or the
\* path of the file of the item.
PathOf(files, self, i) == IF files THEN FilePath(self, i) ELSE ItemPath(self, i)

\* A new path that leaves the number of the item out.
NewPathUnnumbered(self, padding, newNum) ==
    prefix(self) \o <<".">> \o ZeroPad(0, padding) \o suffix(self)

\* The new path of line 509 for the item number num.
NewPath(self, padding, newNum) ==
    prefix(self) \o <<".">> \o ZeroPad(newNum, padding) \o suffix(self)

\* "if startFrame:" is false for None and for 0.
Truthy(n) == n # NoneNum /\ n # 0

\* Lines 494-503: the defaults and the offset.
DefaultPadding(self, a) == IF a.padding = NoneNum THEN self._padding ELSE a.padding

DefaultStart(self, a) ==
    IF a.startFrame = NoneNum THEN numbers(self)[1] ELSE a.startFrame

frameOffset(self, a) ==
    IF Truthy(DefaultStart(self, a))
    THEN DefaultStart(self, a) - numbers(self)[1]
    ELSE 0

\* Lines 512-515: the plan is reversed unless the start frame is None, 0 or
\* below the first number.
reverse(self, a) ==
    ~(~Truthy(DefaultStart(self, a)) \/ DefaultStart(self, a) < numbers(self)[1])

Reversed(seq) == [i \in 1..Len(seq) |-> seq[Len(seq) + 1 - i]]

\* Lines 505-517: the (old path, new path) pairs in the order of execution.
renamePaths(self, a, files) ==
    LET pairs(nums, offset, padding) ==
            [i \in 1..Len(nums) |->
                <<PathOf(files, self, i), NewPath(self, padding, nums[i] + offset)>>]
        ordered(plan) == IF reverse(self, a) THEN Reversed(plan) ELSE plan
    IN  ordered(pairs(numbers(self), frameOffset(self, a), DefaultPadding(self, a)))

\* Lines 476-492: the exits before the plan, in the order of the code.  The
\* value names the exit taken and the exception it raises, if any; "plan"
\* goes on to line 494.  int(None) raises TypeError; numbers raises
\* ValueError when num() does; range raises TypeError on a number None.
Exit(name, err) == [exit |-> name, err |-> err]

RenameGuard(self, a) ==
    LET exits(nums, first, missing) ==
            IF \E i \in 1..Len(nums) : nums[i] = ValueErrorNum
            THEN Exit("numbers", "ValueError")
            ELSE IF a.startFrame = NoneNum /\ a.padding = self._padding
            THEN Exit("padding matches", None)
            ELSE IF a.padding = NoneNum /\ first = NoneNum
            THEN Exit("int(firstNumber)", "TypeError")
            ELSE IF a.padding = NoneNum /\ a.startFrame = first
            THEN Exit("start matches", None)
            ELSE IF a.padding = NoneNum
            THEN Exit("int(padding)", "TypeError")
            ELSE IF a.padding = self._padding /\ first = NoneNum
            THEN Exit("int(firstNumber)", "TypeError")
            ELSE IF a.padding = self._padding /\ a.startFrame = first
            THEN Exit("both match", None)
            ELSE IF ~a.ignoreMissing /\ missing.err # None
            THEN Exit("range", missing.err)
            ELSE IF ~a.ignoreMissing /\ Len(missing.value) > 1
            THEN Exit("missing frames", "ValueError")
            ELSE IF \E i \in 1..Len(nums) : nums[i] = NoneNum
            THEN Exit("number None", "TypeError")
            ELSE Exit("plan", None)
    IN  IF a.padding = NoneNum /\ a.startFrame = NoneNum
        THEN Exit("no arguments", None)
        ELSE IF Len(self._sequence_items) = 0
        THEN Exit("no items", None)
        ELSE exits(numbers(self), firstNumber(self), range(self))

\* The exits that come after line 491 has read self.range.
ReadsRange(self, a, exit) ==
    /\ ~a.ignoreMissing
    /\ range(self).err = None
    /\ exit \in {"missing frames", "number None", "plan"}

\* Lines 519-544: the loop over the plan from its i-th pair on.  completed
\* is completedOps in the order of insertion, moves the os.rename calls made
\* so far.  failAt is the index of the pair whose os.rename fails for a
\* reason outside the model (0: none does).  The value tells where and why
\* the loop stopped: "collision" (line 528), "os.rename" (line 537),
\* "progressCB" (line 544) or None at the end of the plan.
RECURSIVE ExecuteFrom(_, _, _, _, _, _, _, _)
ExecuteFrom(plan, i, disk, completed, moves, a, platform, failAt) ==
    LET stop(why, d, c, m) ==
            [disk |-> d, completed |-> c, moves |-> m, at |-> i, why |-> why]
        vacated(newPath) ==
            \E j \in 1..Len(completed) : completed[j][1] = newPath
        step(oldPath, newPath) ==
            IF ~(a.dryrun /\ vacated(newPath)) /\ exists(disk, newPath) /\ ~a.replace
            THEN stop("collision", disk, completed, moves)
            ELSE IF a.dryrun
            THEN ExecuteFrom(plan, i + 1, disk, Append(completed, plan[i]), moves,
                             a, platform, failAt)
            ELSE IF failAt = i \/ RenameRaises(platform, disk, oldPath, newPath)
            THEN stop("os.rename", disk, completed, moves)
            ELSE IF ~a.progressCB
            THEN \* progressCB is None: calling it raises TypeError, which no
                 \* handler of rename catches.
                 stop("progressCB", Move(disk, oldPath, newPath),
                      Append(completed, plan[i]),
                      Append(moves, MoveRec("forward", disk, oldPath, newPath)))
            ELSE ExecuteFrom(plan, i + 1, Move(disk, oldPath, newPath),
                             Append(completed, plan[i]),
                             Append(moves, MoveRec("forward", disk, oldPath, newPath)),
                             a, platform, failAt)
    IN  IF i > Len(plan) THEN stop(None, disk, completed, moves)
        ELSE step(plan[i][1], plan[i][2])

\* Lines 547-551: the completed moves are undone in the order
\* completedOps.values() yields them; an os.rename that raises ends the
\* call with the exception.
RECURSIVE Undo(_, _, _, _, _)
Undo(todo, disk, moves, a, platform) ==
    IF todo = <<>> THEN [disk |-> disk, moves |-> moves, err |-> None]
    ELSE IF a.dryrun THEN Undo(Tail(todo), disk, moves, a, platform)
    ELSE LET oldPath == todo[1][1]
             newPath == todo[1][2]
         IN  IF RenameRaises(platform, disk, newPath, oldPath)
             THEN [disk |-> disk, moves |-> moves, err |-> "OSError"]
             ELSE Undo(Tail(todo), Move(disk, newPath, oldPath),
                       Append(moves, MoveRec("undo", disk, newPath, oldPath)),
                       a, platform)

\* Lines 555-567: the new source string in the flavor of the old one.
NewSource(self, a) ==
    CASE self._format_type = "nums" ->
            get_string(self, sourceNumber(self) + frameOffset(self, a),
                       DefaultPadding(self, a))
      [] self._format_type = "pounds" -> get_pound_string(self, DefaultPadding(self, a))
      [] self._format_type = "regex" -> get_regex_string(self, DefaultPadding(self, a))
      [] self._format_type = "formatstring" ->
            get_format_string(self, DefaultPadding(self, a))
      [] self._format_type = "percent" -> get_percent_string(self, DefaultPadding(self, a))

\* FileSequence.setSource: the normalized path becomes the source string and
\* every parsed and built property is dropped.
setSource(self, path) ==
    _clearProperties([self EXCEPT !._string = path_normalize(path)])

-----------------------------------------------------------------------------
(* AbstractSequence and BaseSequence: the index of explicit items          *)

Base == "BaseSequence"

\* OrderedDict.update(pairs): a key already there keeps its place and takes
\* the new value, a new key goes to the end.
RECURSIVE OrderedUpdate(_, _)
OrderedUpdate(od, pairs) ==
    IF pairs = <<>> THEN od
    ELSE OrderedUpdate(
            IF \E i \in 1..Len(od) : od[i][1] = pairs[1][1]
            THEN [i \in 1..Len(od) |->
                     IF od[i][1] = pairs[1][1] THEN pairs[1] ELSE od[i]]
            ELSE Append(od, pairs[1]),
            Tail(pairs))

\* The dict of a list of (key, value) pairs, a later pair winning.
RECURSIVE DictOf(_)
DictOf(pairs) ==
    IF pairs = <<>> THEN EmptyDict
    ELSE DictSet(DictOf(SubSeq(pairs, 1, Len(pairs) - 1)),
                 pairs[Len(pairs)][1], pairs[Len(pairs)][2])

\* The pairs as they come, in no order of their keys.
AsGiven(pairs) == pairs

\* sorted(pairs, key=lambda i: i[0]) of pairs with distinct keys.
SortedPairs(pairs) == SortedItems(DictOf(pairs))

\* AbstractSequence._build_sequence_items_from_input: every input item is
\* keyed by num(item), which raises for an item that is no part of the
\* sequence; the source string is added when currentItemNumber is truthy,
\* so neither for a template nor for the number 0.
RECURSIVE AbstractInputItems(_, _, _)
AbstractInputItems(self, input, result) ==
    IF input = <<>> THEN [err |-> None, items |-> result]
    ELSE IF num(self, input[1]) = ValueErrorNum
         THEN [err |-> "ValueError", items |-> result]
    ELSE AbstractInputItems(self, Tail(input),
                            DictSet(result, num(self, input[1]), input[1]))

AbstractBuildFromInput(self) ==
    LET withSource(r) ==
            IF r.err # None THEN r
            ELSE IF self._current_item_number \notin {NoneNum, 0}
            THEN [r EXCEPT !.items =
                     DictSet(@, self._current_item_number, self._string)]
            ELSE r
    IN  withSource(AbstractInputItems(self, self._input_items, EmptyDict))

\* AbstractSequence._loadSequenceItems: parse if needed; build once, and
\* only from explicit items.
AbstractLoadSequenceItems(self) ==
    LET built(s, r) ==
            IF r.err # None THEN [err |-> r.err, self |-> s]
            ELSE [err  |-> None,
                  self |-> [s EXCEPT
                      !._sequence_items = OrderedUpdate(@, SortedItems(r.items)),
                      !._built = TRUE]]
        load(p) ==
            IF p.err # None \/ p.self._built \/ p.self._input_items = NoneList
            THEN p
            ELSE built(p.self, AbstractBuildFromInput(p.self))
    IN  load(Parsed(self))

\* reload, setSource and setItems of AbstractSequence.
reload(self) == AbstractLoadSequenceItems(_clearProperties(self))

AbstractSetSource(self, string) == reload([self EXCEPT !._string = string])

setItems(self, input) == reload([self EXCEPT !._input_items = input])

\* The property items of AbstractSequence: the index, loaded on first use.
Loaded(self) ==
    IF self._built THEN [err |-> None, self |-> self]
    ELSE AbstractLoadSequenceItems(self)

HasKey(od, k) == \E i \in 1..Len(od) : od[i][1] = k

ValueAt(od, k) == od[CHOOSE i \in 1..Len(od) : od[i][1] = k][2]

Without(od, K) == SelectSeq(od, LAMBDA pair : pair[1] \notin K)

\* firstItemNumber and lastItemNumber of a loaded sequence.
firstItemNumber(self) ==
    IF Len(self._sequence_items) = 0 THEN NoneNum ELSE self._sequence_items[1][1]

lastItemNumber(self) ==
    IF Len(self._sequence_items) = 0 THEN NoneNum
    ELSE self._sequence_items[Len(self._sequence_items)][1]

\* BaseSequence.__setitem__(index, value): the value must be part of the
\* sequence and hold the number index; the index is then sorted again.
__setitem__(self, index, value) ==
    LET put(od) ==
            IF HasKey(od, index)
            THEN [i \in 1..Len(od) |->
                     IF od[i][1] = index THEN <<index, value>> ELSE od[i]]
            ELSE Append(od, <<index, value>>)
        stored(l) ==
            IF l.err # None THEN l
            ELSE [err  |-> None,
                  self |-> [l.self EXCEPT !._sequence_items = SortedPairs(put(@))]]
        checked(p) ==
            IF p.err # None THEN p
            ELSE IF ~is_part_of_sequence(p.self, value)
                 THEN [err |-> "ValueError", self |-> p.self]
            ELSE IF num(p.self, value) # index
                 THEN [err |-> "ValueError", self |-> p.self]
            ELSE stored(Loaded(p.self))
    IN  IF Len(self._string) # Len(value)
        THEN [err |-> "ValueError", self |-> self]
        ELSE checked(Parsed(self))

\* BaseSequence.__delitem__(index) of a number: nothing happens when the
\* number is no key.
__delitem__(self, index) ==
    LET deleted(l) ==
            IF l.err # None THEN l
            ELSE [err  |-> None,
                  self |-> [l.self EXCEPT !._sequence_items = Without(@, {index})]]
    IN  deleted(Loaded(self))

\* BaseSequence.__delitem__(slice(start, stop)): the keys start..stop, both
\* included; None stands for the first and for the last number, and the
\* builtin range raises TypeError on the None of an empty index.
DelSlice(self, start, stop) ==
    LET cut(s, lo, hi) ==
            IF lo = NoneNum \/ hi = NoneNum THEN [err |-> "TypeError", self |-> s]
            ELSE [err  |-> None,
                  self |-> [s EXCEPT !._sequence_items = Without(@, lo..hi)]]
        deleted(l) ==
            IF l.err # None THEN l
            ELSE cut(l.self,
                     IF start = NoneNum THEN firstItemNumber(l.self) ELSE start,
                     IF stop = NoneNum THEN lastItemNumber(l.self) ELSE stop)
    IN  deleted(Loaded(self))

\* MutableMapping.pop(key): self[key], then del self[key]; KeyError when the
\* key is missing.
pop(self, key) ==
    LET popped(l) ==
            IF l.err # None THEN [err |-> l.err, self |-> l.self, value |-> NoneStr]
            ELSE IF ~HasKey(l.self._sequence_items, key)
                 THEN [err |-> "KeyError", self |-> l.self, value |-> NoneStr]
            ELSE [err   |-> None,
                  self  |-> [l.self EXCEPT !._sequence_items = Without(@, {key})],
                  value |-> ValueAt(l.self._sequence_items, key)]
    IN  popped(Loaded(self))

\* MutableMapping.clear(): popitem() until the index is empty.
clear(self) ==
    LET cleared(l) ==
            IF l.err # None THEN l
            ELSE [err |-> None, self |-> [l.self EXCEPT !._sequence_items = <<>>]]
    IN  cleared(Loaded(self))

\* MutableMapping.update(pairs): self[key] = value for each pair, up to the
\* first one that raises.
RECURSIVE update(_, _)
update(self, pairs) ==
    LET next(r) == IF r.err # None THEN r ELSE update(r.self, Tail(pairs))
    IN  IF pairs = <<>> THEN [err |-> None, self |-> self]
        ELSE next(__setitem__(self, pairs[1][1], pairs[1][2]))

\* The property range of AbstractSequence: a kept value is returned as it
\* is; otherwise the index is loaded and the grouping of its numbers is kept.
AbstractRange(self) ==
    LET kept(s, r) ==
            [err   |-> r.err,
             self  |-> IF r.err = None THEN [s EXCEPT !._range = r.value] ELSE s,
             value |-> r.value]
        computed(l) ==
            IF l.err # None THEN [err |-> l.err, self |-> l.self, value |-> RangeNone]
            ELSE kept(l.self, range(l.self))
    IN  IF self._range # RangeNone
        THEN [err |-> None, self |-> self, value |-> self._range]
        ELSE computed(Loaded(self))

\* The property missing: for each pair of neighbours of numbers that are
\* more than 1 apart, the integers between them.  Nothing is kept.
\* A listing that stops at the first absent number of each gap.
FirstMissingOnly(nums) ==
    LET gaps == SelectSeq([i \in 1..(Len(nums) - 1) |-> i],
                          LAMBDA i : nums[i + 1] - nums[i] > 1)
    IN  [k \in 1..Len(gaps) |-> nums[gaps[k]] + 1]

RECURSIVE missing_numbers(_)
missing_numbers(nums) ==
    IF Len(nums) < 2 THEN <<>>
    ELSE (IF nums[2] - nums[1] > 1
          THEN [d \in 1..(nums[2] - nums[1] - 1) |-> nums[1] + d]
          ELSE <<>>) \o missing_numbers(Tail(nums))

missing(self) ==
    LET listed(s, nums) ==
            IF \E i \in 1..Len(nums) : nums[i] = ValueErrorNum
            THEN [err |-> "ValueError", self |-> s, value |-> <<>>]
            ELSE IF Len(nums) >= 2 /\ \E i \in 1..Len(nums) : nums[i] = NoneNum
            THEN [err |-> "TypeError", self |-> s, value |-> <<>>]
            ELSE [err |-> None, self |-> s, value |-> missing_numbers(nums)]
        computed(l) ==
            IF l.err # None THEN [err |-> l.err, self |-> l.self, value |-> <<>>]
            ELSE listed(l.self, numbers(l.self))
    IN  computed(Loaded(self))

\* nums.index(n): the first position of n, 1-based here.
IndexOf(nums, n) == Min({i \in 1..Len(nums) : nums[i] = n})

\* get_next_item and get_previous_item: step is +1 or -1.  The number None
\* stands for the current item number; the item returned is get_string of
\* the key at the position of the number, plus the step.
Neighbour(self, itemNumber, step) ==
    LET raised(s, e) == [err |-> e, self |-> s, value |-> NoneStr]
        returned(s, string) ==
            IF string = ErrorStr THEN raised(s, "ValueError")
            ELSE [err |-> None, self |-> s, value |-> string]
        found(s, nums, at) ==
            IF at = (IF step > 0 THEN Len(nums) ELSE 1)
            THEN [err |-> None, self |-> s, value |-> NoneStr]
            ELSE IF s._sequence_items[at][1] = NoneNum THEN raised(s, "TypeError")
            ELSE returned(s, get_string(s, s._sequence_items[at][1] + step, NoneNum))
        looked(s, n, nums) ==
            IF \E i \in 1..Len(nums) : nums[i] = ValueErrorNum
            THEN raised(s, "ValueError")
            ELSE IF ~\E i \in 1..Len(nums) : nums[i] = n
            THEN raised(s, "ValueError")
            ELSE found(s, nums, IndexOf(nums, n))
        asked(l, n) ==
            IF l.err # None THEN raised(l.self, l.err)
            ELSE looked(l.self, n, numbers(l.self))
        start(p) ==
            IF p.err # None THEN raised(p.self, p.err)
            ELSE IF itemNumber = NoneNum /\ p.self._current_item_number = NoneNum
            THEN raised(p.self, "ValueError")
            ELSE asked(Loaded(p.self),
                       IF itemNumber = NoneNum THEN p.self._current_item_number
                       ELSE itemNumber)
    IN  start(Parsed(self))

\* get_next_item without its test for the last item.
NextWithoutLastTest(self, itemNumber) ==
    LET past(r) ==
            IF r.err = None /\ r.value = NoneStr /\ itemNumber # NoneNum
            THEN [r EXCEPT !.value = get_string(r.self, itemNumber + 1, NoneNum)]
            ELSE r
    IN  past(Neighbour(self, itemNumber, 1))

get_next_item(self, itemNumber) == Neighbour(self, itemNumber, 1)

get_previous_item(self, itemNumber) == Neighbour(self, itemNumber, -1)


\* The setter of currentItemNumber: a value that is no int (None) raises
\* TypeError; the number is assigned first, then self.padding is read, which
\* parses a sequence not parsed yet, and the current item is rendered from
\* the number the sequence holds after that read.
currentItemNumber_setter(self, value) ==
    LET rendered(p) ==
            IF p.err # None THEN p
            ELSE [err  |-> None,
                  self |-> [p.self EXCEPT
                      !._current_item =
                          ZeroPad(p.self._current_item_number, p.self._padding)]]
    IN  IF value = NoneNum THEN [err |-> "TypeError", self |-> self]
        ELSE rendered(Parsed([self EXCEPT !._current_item_number = value]))


\* The properties prefix and suffix: the kept value if there is one;
\* otherwise the sequence is parsed if it is not, and the group of the match
\* is kept and returned.
prefixProperty(self) ==
    LET kept(p) ==
            IF p.err # None THEN [err |-> p.err, self |-> p.self, value |-> NoneStr]
            ELSE [err |-> None, value |-> prefix(p.self),
                  self |-> [p.self EXCEPT !._prefix = prefix(p.self)]]
    IN  IF self._prefix # NoneStr
        THEN [err |-> None, self |-> self, value |-> self._prefix]
        ELSE kept(Parsed(self))

suffixProperty(self) ==
    LET kept(p) ==
            IF p.err # None THEN [err |-> p.err, self |-> p.self, value |-> NoneStr]
            ELSE [err |-> None, value |-> suffix(p.self),
                  self |-> [p.self EXCEPT !._suffix = suffix(p.self)]]
    IN  IF self._suffix # NoneStr
        THEN [err |-> None, self |-> self, value |-> self._suffix]
        ELSE kept(Parsed(self))

-----------------------------------------------------------------------------
(* The state machine                                                       *)

VARIABLES
    self,       \* the FileSequence
    disk,       \* the files of the folder: path |-> content
    ret,        \* the last call: its arguments and what it did
    calls,      \* the number of calls made
    renames     \* the number of them that were rename

vars == <<self, disk, ret, calls, renames>>

\* Bounds of the model.
MaxItem  == 3      \* the largest item number of the initial files
MaxPad   == 3      \* the largest padding asked of rename
MaxStart == 2      \* the largest start frame asked of rename
MaxCalls == 2      \* the number of calls of one behaviour
MaxRenames == 1    \* the number of them that may be rename

\* The path '/s.<n at width w>.e'.
P(n, w) == <<"/", "s", ".">> \o ZeroPad(n, w) \o <<".", "e">>

\* The source strings of the model with the padding of each: an item and a
\* template of the flavors whose slot is as long as its padding.
Sources ==
    {P(1, 2),
     <<"/", "s", ".", "#", "#", ".", "e">>,
     <<"/", "s", ".", "%", "0", "4", "d", ".", "e">>,
     <<"/", "s", ".", "\\", "d", "{", "5", "}", ".", "e">>}

\* A sequence of class cls after __init__(path, items, skipValidate=True),
\* for a FileSequence with normalizeInput=False.
\* _sourceFile is the class of the fileInstance given, None when none was;
\* P4 tells whether the module P4 was imported, as the global P4 does.
NewSequence(cls, path, items) ==
    [cls |-> cls, _string |-> path, _input_items |-> items,
     validateExists |-> TRUE,
     _matches |-> 0, _primary_match |-> NoMatch, _format_type |-> None,
     _current_item |-> NoneStr, _current_item_number |-> NoneNum,
     _sequence_items |-> <<>>, _regex_string |-> NoneStr,
     _parsed |-> FALSE, _built |-> FALSE,
     _prefix |-> NoneStr, _suffix |-> NoneStr, _range |-> RangeNone,
     _padding |-> NoneNum, _base_sequence_items |-> <<NoneStr, NoneStr>>,
     _sourceFile |-> None, P4 |-> FALSE]

\* The files '/s.<n>.e' of the numbers N at width w, each holding its own
\* content, named after its first path.
Files(N, w) == [f \in {P(n, w) : n \in N} |-> f]

\* The list of those paths in ascending order.
PathList(N, w) ==
    LET ks == SortedKeys(N) IN [i \in 1..Len(ks) |-> P(ks[i], w)]

\* The arguments of rename: None or a value for padding and startFrame; a
\* callable (TRUE) or None (FALSE) for progressCB.
Args ==
    [padding : {NoneNum} \cup 2..MaxPad,
     startFrame : {NoneNum} \cup 0..MaxStart,
     ignoreMissing : BOOLEAN, replace : BOOLEAN, dryrun : BOOLEAN,
     progressCB : BOOLEAN]

NoArgs ==
    [padding |-> NoneNum, startFrame |-> NoneNum, ignoreMissing |-> FALSE,
     replace |-> FALSE, dryrun |-> FALSE, progressCB |-> FALSE]

\* What a call leaves for the checks: the call, its arguments, the value it
\* returned (a string, for a renderer), the exception it ended with, the
\* exit rename took, its plan, the platform and the os.rename calls of its
\* loop, the pair the loop stopped at, the sequence as the call read it, and
\* the disk and the sequence the call started from.
Ret(op, a, value, err, exit, plan, moves, at, platform, seen) ==
    [op |-> op, a |-> a, value |-> value, err |-> err, exit |-> exit,
     plan |-> plan, moves |-> moves, at |-> at, platform |-> platform,
     seen |-> seen, before |-> [disk |-> disk, self |-> self]]

\* The record of the construction of the sequence start on the disk d.
Constructed(start, d) ==
    [op |-> "init", a |-> NoArgs, value |-> NoneStr, err |-> None,
     exit |-> None, plan |-> <<>>, moves |-> <<>>, at |-> 0,
     platform |-> None, seen |-> start,
     before |-> [disk |-> d, self |-> start]]

\* A sequence built by __init__ with its default skipValidate=False, on a
\* disk holding the files of N at the width of the slot and, maybe, one file
\* of another width; the items are listed by the folder (items=None) or
\* given as the list of the files of N.
Init ==
    \E src \in Sources, N \in SUBSET (1..MaxItem), given, extra \in BOOLEAN :
    \E w \in {_parse_padding_from_match(File, regex(File, src))} :
    \E d \in {IF extra THEN Files(N, w) @@ Files({MaxItem}, MaxPad)
              ELSE Files(N, w)} :
    \E start \in {_parse_values(NewSequence(File, src,
                     IF given THEN PathList(N, w) ELSE NoneList)).self} :
        /\ self = start
        /\ disk = d
        /\ ret = Constructed(start, d)
        /\ calls = 0
        /\ renames = 0

\* The property items: the index is built on first use; the value kept is
\* the lister the build called.
items ==
    /\ calls < MaxCalls
    /\ \E l \in {_loadSequenceItems(self, disk)} :
        /\ self' = l.self
        /\ ret' = Ret("items", NoArgs, l.lister, l.err, None, <<>>, <<>>, 0,
                      None, l.self)
    /\ calls' = calls + 1
    /\ UNCHANGED <<disk, renames>>

\* A renderer called with a padding or with None: the sequence is parsed if
\* it is not, and the string is returned.
RenderString(op, s, padding) ==
    CASE op = "get_pound_string" -> get_pound_string(s, padding)
      [] op = "get_format_string" -> get_format_string(s, padding)
      [] op = "get_percent_string" -> get_percent_string(s, padding)

Render(op) ==
    /\ calls < MaxCalls
    /\ \E padding \in {NoneNum} \cup 1..MaxPad :
       \E p \in {Parsed(self)} :
            /\ self' = p.self
            /\ ret' = Ret(op, [NoArgs EXCEPT !.padding = padding],
                          IF p.err # None THEN NoneStr ELSE RenderString(op, p.self, padding),
                          p.err, None, <<>>, <<>>, 0, None, p.self)
    /\ calls' = calls + 1
    /\ UNCHANGED <<disk, renames>>

pound_string == Render("get_pound_string")

format_string == Render("get_format_string")

percent_string == Render("get_percent_string")

\* get_regex_string(padding): a kept result is returned as it is; otherwise
\* the sequence is parsed if it is not and the result is kept.
regex_string ==
    /\ calls < MaxCalls
    /\ \E padding \in {NoneNum} \cup 1..MaxPad :
       \E p \in {IF self._regex_string # NoneStr THEN [err |-> None, self |-> self]
                 ELSE Parsed(self)} :
       \E value \in {IF p.err # None THEN NoneStr
                     ELSE get_regex_string(p.self, padding)} :
            /\ self' = [p.self EXCEPT !._regex_string = value]
            /\ ret' = Ret("get_regex_string", [NoArgs EXCEPT !.padding = padding],
                          value, p.err, None, <<>>, <<>>, 0, None, p.self)
    /\ calls' = calls + 1
    /\ UNCHANGED <<disk, renames>>

Perms(n) ==
    {f \in [1..n -> 1..n] : \A i, j \in 1..n : i # j => f[i] # f[j]}

\* rename(padding, startFrame, ignoreMissing, replace, dryrun, progressCB),
\* with PathOf(files, ...) for item.path.  An exception raised before the loop leaves
\* the disk alone; the index stays built and range stays cached.  A failed
\* loop undoes completedOps in some order of the dictionary; a loop that ran
\* to its end is followed by setSource, in a dry run too.
Rename(files) ==
    /\ calls < MaxCalls
    /\ renames < MaxRenames
    /\ calls' = calls + 1
    /\ renames' = renames + 1
    /\ \E loaded \in {_loadSequenceItems(self, disk)}, a \in Args :
       \E l \in {IF a.padding = NoneNum /\ a.startFrame = NoneNum
                 THEN [err |-> None, self |-> self] ELSE loaded} :
       \E g \in {IF l.err # None THEN Exit("parse", l.err)
                 ELSE RenameGuard(l.self, a)} :
       \E s \in {IF l.err = None /\ ReadsRange(l.self, a, g.exit)
                 THEN [l.self EXCEPT !._range = range(l.self).value]
                 ELSE l.self} :
        IF g.exit # "plan"
        THEN /\ self' = s
             /\ disk' = disk
             /\ ret' = Ret("rename", a, NoneStr, g.err, g.exit, <<>>, <<>>, 0,
                           None, s)
        ELSE
        \E plan \in {renamePaths(s, a, files)} :
        IF \E i \in 1..Len(plan) : plan[i][1] = ErrorStr
        THEN /\ self' = s
             /\ disk' = disk
             /\ ret' = Ret("rename", a, NoneStr, "AttributeError", "item.path",
                           <<>>, <<>>, 0, None, s)
        ELSE
        \E failAt \in 0..(IF a.dryrun THEN 0 ELSE Len(plan)),
           platform \in IF a.dryrun THEN {Posix} ELSE {Posix, Windows} :
        \E f \in {ExecuteFrom(plan, 1, disk, <<>>, <<>>, a, platform, failAt)} :
        IF f.why = "progressCB"
        THEN /\ self' = s
             /\ disk' = f.disk
             /\ ret' = Ret("rename", a, NoneStr, "TypeError", "progressCB",
                           plan, f.moves, f.at, platform, s)
        ELSE IF f.why # None
        THEN \E order \in Perms(Len(f.completed)) :
             \E u \in {Undo([i \in 1..Len(f.completed) |-> f.completed[order[i]]],
                            f.disk, f.moves, a, platform)} :
                /\ self' = s
                /\ disk' = u.disk
                /\ ret' = Ret("rename", a, NoneStr, u.err, f.why,
                              plan, u.moves, f.at, platform, s)
        ELSE \E new \in {NewSource(s, a)} :
                /\ self' = IF new = ErrorStr THEN s ELSE setSource(s, new)
                /\ disk' = f.disk
                /\ ret' = Ret("rename", a, NoneStr,
                              IF new = ErrorStr THEN "ValueError" ELSE None,
                              "done", plan, f.moves, 0, platform, s)

\* rename as the code has it.
rename == Rename(FALSE)

Next == items \/ regex_string \/ rename

Spec == Init /\ [][Next]_vars

\* rename with line 510 reading files[i].path, the path of the file of each
\* item, instead of the attribute path of a key of the index.  The loop of
\* lines 519-551 can only be observed in this specification: under Spec it
\* is never entered with a pair.
renameFiles == Rename(TRUE)

NextFiles == items \/ regex_string \/ renameFiles

SpecFiles == Init /\ [][NextFiles]_vars

\* The renderers alone, on sequences of both classes.
TemplateFile ==
    {<<"/", "s", ".", "{", "i", "t", "e", "m", ":", "0", "2", "d", "}", ".", "e">>}

PlainSources ==
    {<<"a", "#", "1">>, <<"a", "0", "1">>, <<"a", "#", "#">>,
     <<"a", "%", "0", "2", "d">>}

InitRender ==
    \E cls \in {Plain, File} :
    \E src \in IF cls = File THEN Sources \cup TemplateFile ELSE PlainSources :
    \E start \in {_parse_values(NewSequence(cls, src, NoneList)).self} :
        /\ self = start
        /\ disk = Files({}, MaxPad)
        /\ ret = Constructed(start, Files({}, MaxPad))
        /\ calls = 0
        /\ renames = 0

NextRender == pound_string \/ format_string \/ percent_string \/ regex_string

SpecRender == InitRender /\ [][NextRender]_vars

-----------------------------------------------------------------------------
(* A BaseSequence with explicit items                                      *)

MaxNum == 3          \* the largest item number
MaxBaseCalls == 3    \* the number of calls of one behaviour

\* The source strings: an item, the item 0, a template, and an item whose
\* prefix holds a brace.
BaseSources ==
    {<<"s", "0", "1">>, <<"s", "0", "0">>, <<"s", "#", "#">>,
     <<"s", "}", "0", "1">>}

\* The item of the number n of the sequence s, and a string of the same
\* length that is no item of it.
ItemOf(s, n) == prefix(s) \o ZeroPad(n, s._padding)

Stranger(s) == <<"x">> \o Tail(ItemOf(s, 0))

\* The items of the numbers N in ascending or in descending order.
ItemList(s, N, ascending) ==
    LET ks == SortedKeys(N)
    IN  [i \in 1..Len(ks) |->
            ItemOf(s, IF ascending THEN ks[i] ELSE ks[Len(ks) + 1 - i])]

\* BaseSequence(string, items) on the source src: no list of items when N
\* is None, the items of the numbers N in the order asked otherwise.
NewBase(src, N, ascending) ==
    LET listed(parsed) ==
            IF N = {NoneNum} THEN parsed
            ELSE [parsed EXCEPT !._input_items = ItemList(parsed, N, ascending)]
    IN  listed(_parse_values(NewSequence(Base, src, NoneList)).self)

\* A sequence of any source with the items of some numbers in ascending or
\* in descending order.
InitItems ==
    \E src \in BaseSources, N \in SUBSET (0..MaxNum), ascending \in BOOLEAN :
    \E start \in {NewBase(src, N, ascending)} :
        /\ self = start
        /\ disk = EmptyDict
        /\ ret = Constructed(start, EmptyDict)
        /\ calls = 0
        /\ renames = 0

\* A sequence of an item or of a template, with no list of items or with the
\* items of some numbers in descending order.
InitBase ==
    \E src \in {<<"s", "0", "1">>, <<"s", "#", "#">>},
       N \in {{NoneNum}} \cup SUBSET (0..MaxNum) :
    \E start \in {NewBase(src, N, FALSE)} :
        /\ self = start
        /\ disk = EmptyDict
        /\ ret = Constructed(start, EmptyDict)
        /\ calls = 0
        /\ renames = 0

\* What a call on a BaseSequence leaves: the call, its arguments, its value
\* or its exception, and the sequence as the call left it.
BaseRet(op, a, r, value) ==
    Ret(op, a, value, r.err, None, <<>>, <<>>, 0, None, r.self)

BaseCall(op, a, r, value) ==
    /\ calls < MaxBaseCalls
    /\ self' = r.self
    /\ ret' = BaseRet(op, a, r, value)
    /\ calls' = calls + 1
    /\ UNCHANGED <<disk, renames>>

\* seq[index] = value, for an item of the sequence at its own number or at
\* the next one, and for a string that is no item.
setitem ==
    \E n \in 0..MaxNum, off \in {0, 1}, strange \in BOOLEAN :
    \E value \in {IF strange THEN Stranger(self) ELSE ItemOf(self, n)} :
    \E r \in {__setitem__(self, n + off, value)} :
        /\ (strange \/ off = 1) => n = 0
        /\ BaseCall("__setitem__", [index |-> n + off, value |-> value], r, NoneStr)

\* del seq[index]
delitem ==
    \E n \in 0..MaxNum :
    \E r \in {__delitem__(self, n)} :
        BaseCall("__delitem__", [index |-> n], r, NoneStr)

\* del seq[start:stop], each a number or None.
delslice ==
    \E start \in {NoneNum, 1}, stop \in {NoneNum, 2} :
    \E r \in {DelSlice(self, start, stop)} :
        BaseCall("__delitem__", [start |-> start, stop |-> stop], r, NoneStr)

\* seq.pop(key)
popitem ==
    \E n \in 0..MaxNum :
    \E r \in {pop(self, n)} :
        BaseCall("pop", [index |-> n], r, r.value)

\* seq.clear()
clearitems ==
    \E r \in {clear(self)} : BaseCall("clear", NoArgs, r, NoneStr)

\* seq.update({n: item, n + 1: item})
updateitems ==
    \E n \in 0..(MaxNum - 1) :
    \E r \in {update(self, <<<<n, ItemOf(self, n)>>, <<n + 1, ItemOf(self, n + 1)>>>>)} :
        BaseCall("update", [index |-> n], r, NoneStr)

\* seq.setItems(items) with the items of two numbers.
setitems ==
    \E n \in 0..(MaxNum - 2) :
    \E r \in {setItems(self, ItemList(self, {n, n + 2}, FALSE))} :
        BaseCall("setItems", [index |-> n], r, NoneStr)

\* seq.setSource(string) with another item of the sequence.
setsource ==
    \E n \in {2} :
    \E r \in {AbstractSetSource(self, ItemOf(self, n))} :
        BaseCall("setSource", [index |-> n], r, NoneStr)

\* seq.range
readrange ==
    \E r \in {AbstractRange(self)} : BaseCall("range", NoArgs, r, r.value)

\* seq.missing
readmissing ==
    \E r \in {missing(self)} : BaseCall("missing", NoArgs, r, r.value)

\* seq.items.keys(), seq.numbers, seq.firstItemNumber and seq.lastItemNumber
readnumbers ==
    \E l \in {Loaded(self)} :
        BaseCall("numbers", NoArgs, l,
                 IF l.err # None THEN NoneStr
                 ELSE [keys    |-> keys(l.self),
                       numbers |-> numbers(l.self),
                       first   |-> firstItemNumber(l.self),
                       last    |-> lastItemNumber(l.self)])

\* seq.get_string(n)
getstring ==
    \E n \in 0..MaxNum :
    \E p \in {Parsed(self)} :
    \E string \in {IF p.err # None THEN ErrorStr ELSE get_string(p.self, n, NoneNum)} :
        BaseCall("get_string", [itemNumber |-> n],
                 [err  |-> IF p.err # None THEN p.err
                           ELSE IF string = ErrorStr THEN "ValueError" ELSE None,
                  self |-> p.self],
                 string)

\* seq.get_next_item(n) and seq.get_previous_item(n), n a number or None.
nextitem ==
    \E n \in {NoneNum} \cup 0..(MaxNum + 1) :
    \E r \in {get_next_item(self, n)} :
        BaseCall("get_next_item", [itemNumber |-> n], r, r.value)

previousitem ==
    \E n \in {NoneNum} \cup 0..(MaxNum + 1) :
    \E r \in {get_previous_item(self, n)} :
        BaseCall("get_previous_item", [itemNumber |-> n], r, r.value)

\* The reads of a sequence built from explicit items.
NextItems ==
    \/ readrange \/ readmissing \/ readnumbers
    \/ getstring \/ nextitem \/ previousitem

SpecItems == InitItems /\ [][NextItems]_vars

\* The mutations of a BaseSequence and the reads of its index.
NextBase ==
    \/ setitem \/ delitem \/ delslice \/ popitem \/ clearitems \/ updateitems
    \/ setitems \/ setsource
    \/ readrange \/ readmissing \/ readnumbers

SpecBase == InitBase /\ [][NextBase]_vars

-----------------------------------------------------------------------------
(* Classification of a source string                                       *)

MaxPieces == 3       \* the number of pieces of a source string

\* The pieces source strings are made of: text, an extension, a slot of each
\* flavor after a '.', a slot with another format key, digits, a '/'.
Pieces ==
    {<<"a">>, <<".", "e">>, <<".", "0", "1">>, <<".", "#", "#">>,
     <<".", "%", "0", "2", "d">>, <<".", "\\", "d", "{", "2", "}">>,
     <<".", "{", "i", "t", "e", "m", ":", "0", "2", "d", "}">>,
     <<".", "{", "x", ":", "0", "2", "d", "}">>,
     <<"0", "2">>, <<"/">>}

RECURSIVE Concat(_)
Concat(pieces) ==
    IF pieces = <<>> THEN <<>> ELSE pieces[1] \o Concat(Tail(pieces))

Strings ==
    {Concat(pieces) : pieces \in UNION {[1..n -> Pieces] : n \in 1..MaxPieces}}

\* A sequence of either class on a string, or on None, constructed with
\* skipValidate=True; a FileSequence with validateExists=False and
\* normalizeInput=False.
InitClassify ==
    \E cls \in {Plain, File}, src \in Strings \cup {NoneStr} :
    \E start \in {[NewSequence(cls, src, NoneList) EXCEPT !.validateExists = FALSE]} :
        /\ self = start
        /\ disk = EmptyDict
        /\ ret = Constructed(start, EmptyDict)
        /\ calls = 0
        /\ renames = 0

\* validate(): the source string is classified unless it already was.
validate ==
    /\ calls < MaxCalls
    /\ \E p \in {Parsed(self)} :
        /\ self' = p.self
        /\ ret' = Ret("validate", NoArgs, NoneStr, p.err, None, <<>>, <<>>, 0,
                      None, p.self)
    /\ calls' = calls + 1
    /\ UNCHANGED <<disk, renames>>

NextClassify == validate

SpecClassify == InitClassify /\ [][NextClassify]_vars


-----------------------------------------------------------------------------
(* The current item of a sequence                                          *)

\* The source 'a.<slot>' of every flavor, the slot two wide.
FlavorSources ==
    {<<"a", ".">> \o slot :
        slot \in {<<"0", "1">>, PoundSubstr(2), PercentSubstr(2),
                  RegexSubstr(2), FormatSubstr(formatStringKey(Plain), 2)}}

\* A sequence of any flavor and of either class, constructed with
\* skipValidate=True or parsed by __init__.
InitCurrent ==
    \E cls \in {Plain, File}, src \in FlavorSources, skipValidate \in BOOLEAN :
    \E new \in {[NewSequence(cls, src, NoneList) EXCEPT !.validateExists = FALSE]} :
    \E start \in {IF skipValidate THEN new ELSE _parse_values(new).self} :
        /\ self = start
        /\ disk = EmptyDict
        /\ ret = Constructed(start, EmptyDict)
        /\ calls = 0
        /\ renames = 0

\* seq.currentItemNumber = value, an int or None.
setcurrent ==
    \E value \in {NoneNum} \cup 0..MaxNum :
    \E r \in {currentItemNumber_setter(self, value)} :
        BaseCall("currentItemNumber=", [value |-> value], r, NoneStr)

\* seq.currentItemNumber and seq.currentItem
readcurrent ==
    \E p \in {Parsed(self)} :
        BaseCall("currentItemNumber", NoArgs, p,
                 [number |-> p.self._current_item_number,
                  item   |-> p.self._current_item])

\* seq.is_part_of_sequence(string), for the number 1 or 2 at a width of 1 to
\* MaxPad after the prefix of the sources or after another one: the lengths
\* are compared before the sequence is parsed.
ispart ==
    \E n \in 1..2, w \in 1..MaxPad, pre \in {"a", "b"} :
    \E string \in {<<pre, ".">> \o ZeroPad(n, w)} :
    \E p \in {IF Len(self._string) # Len(string)
              THEN [err |-> None, self |-> self] ELSE Parsed(self)} :
        BaseCall("is_part_of_sequence", [string |-> string], p,
                 IF p.err # None THEN NoneStr
                 ELSE is_part_of_sequence(p.self, string))

NextCurrent == setcurrent \/ readcurrent \/ ispart

SpecCurrent == InitCurrent /\ [][NextCurrent]_vars


-----------------------------------------------------------------------------
(* The index built from explicit items                                     *)

MaxGiven == 2        \* the number of explicit items

\* The strings given as items to a parsed sequence s whose slot is as wide
\* as its padding: with the prefix of s or with another one of the same
\* length, with a slot of digits, of letters or of both, of the width of s
\* or one shorter, and with the suffix of s.
Candidates(s) ==
    {pre \o slot \o suffix(s) :
        pre  \in {prefix(s), <<"x">> \o Tail(prefix(s))},
        slot \in {ZeroPad(0, s._padding), ZeroPad(2, s._padding),
                  ZeroPad(2, s._padding - 1),
                  Repeat("b", s._padding),
                  <<"1">> \o Repeat("b", s._padding - 1)}}

\* BaseSequence(string, items) and FileSequence(path, items): a digits or a
\* placeholder-run source, with up to MaxGiven candidates as items.
InitInput ==
    \E cls \in {Base, File}, hashes \in BOOLEAN, n \in 0..MaxGiven :
    \E src \in {(IF cls = File THEN <<"/", "s", ".">> ELSE <<"s">>)
                \o (IF hashes THEN PoundSubstr(2) ELSE <<"0", "1">>)
                \o (IF cls = File THEN <<".", "e">> ELSE <<>>)} :
    \E parsed \in {_parse_values([NewSequence(cls, src, NoneList)
                                     EXCEPT !.validateExists = FALSE]).self} :
    \E given \in [1..n -> Candidates(parsed)] :
    \E start \in {[parsed EXCEPT !._input_items = given]} :
        /\ self = start
        /\ disk = EmptyDict
        /\ ret = Constructed(start, EmptyDict)
        /\ calls = 0
        /\ renames = 0

\* seq.items: the index, built on first use by the method of the class.
loaditems ==
    \E l \in {IF self.cls = File THEN _loadSequenceItems(self, disk)
              ELSE Loaded(self)} :
        BaseCall("items", NoArgs, l, NoneStr)

NextInput == loaditems

SpecInput == InitInput /\ [][NextInput]_vars


-----------------------------------------------------------------------------
(* Invalidation: setSource, setItems and reload                            *)

\* The source strings and the lists of items a sequence is given anew.
NewSources ==
    {<<"s", "0", "2">>, <<"s", "#", "#">>, <<"t", "0", "0", "3">>, <<"s">>}

NewItemLists ==
    {<<>>, <<<<"s", "0", "2">>, <<"s", "0", "0">>>>,
     <<<<"t", "0", "0", "1">>>>}

\* BaseSequence(string, items) on a digits or a placeholder-run source, with
\* no list of items or with the items of some numbers.
InitReload ==
    \E src \in {<<"s", "0", "1">>, <<"s", "#", "#">>},
       N \in {{NoneNum}} \cup SUBSET (1..2) :
    \E start \in {NewBase(src, N, TRUE)} :
        /\ self = start
        /\ disk = EmptyDict
        /\ ret = Constructed(start, EmptyDict)
        /\ calls = 0
        /\ renames = 0

\* seq.prefix and seq.suffix
readprefix ==
    \E pre \in {prefixProperty(self)} :
    \E suf \in {suffixProperty(pre.self)} :
        BaseCall("prefix", NoArgs,
                 [err |-> IF pre.err # None THEN pre.err ELSE suf.err,
                  self |-> suf.self],
                 [prefix |-> pre.value, suffix |-> suf.value])

\* seq.get_regex_string(padding)
readregex ==
    \E padding \in {NoneNum, 1} :
    \E p \in {IF self._regex_string # NoneStr THEN [err |-> None, self |-> self]
              ELSE Parsed(self)} :
    \E value \in {IF p.err # None THEN NoneStr
                  ELSE get_regex_string(p.self, padding)} :
        BaseCall("get_regex_string", [padding |-> padding],
                 [err |-> p.err, self |-> [p.self EXCEPT !._regex_string = value]],
                 value)

\* seq.setSource(string)
newsource ==
    \E string \in NewSources :
    \E r \in {AbstractSetSource(self, string)} :
        BaseCall("setSource", [string |-> string], r, NoneStr)

\* seq.setItems(items)
newitems ==
    \E input \in NewItemLists :
    \E r \in {setItems(self, input)} :
        BaseCall("setItems", [items |-> input], r, NoneStr)

\* seq.reload()
reloaded ==
    \E r \in {reload(self)} : BaseCall("reload", NoArgs, r, NoneStr)

NextReload ==
    \/ readprefix \/ readregex \/ readcurrent \/ readrange
    \/ newsource \/ newitems \/ reloaded

SpecReload == InitReload /\ [][NextReload]_vars


-----------------------------------------------------------------------------
(* The index built from the folder                                         *)

MaxSiblings == 2     \* the number of files of the folder

\* The source paths: a digits and a placeholder-run source with an
\* extension, a source with more suffix than its extension, a source with
\* no suffix.
DiskSources ==
    {P(1, 2),
     <<"/", "s", ".">> \o PoundSubstr(2) \o <<".", "e">>,
     <<"/", "s", ".", "0", "1", "_", "b", ".", "e">>,
     <<"/", "s", ".", "0", "1">>}

\* The files a folder may hold beside a parsed sequence s: what s holds
\* before and after its slot, or another name before it, around a slot of
\* digits at the width of s, of a digit and letters, or of digits at the
\* next width.
Siblings(s) ==
    {pre \o slot \o s._base_sequence_items[2] :
        pre  \in {s._base_sequence_items[1], <<"/", "x", ".">>},
        slot \in {ZeroPad(0, s._padding), ZeroPad(2, s._padding),
                  <<"1">> \o Repeat("b", s._padding - 1),
                  ZeroPad(2, s._padding + 1)}}

\* FileSequence(path) with no list of items, on a folder holding up to
\* MaxSiblings of those files.
InitDisk ==
    \E src \in DiskSources :
    \E start \in {_parse_values(NewSequence(File, src, NoneList)).self} :
    \E held \in {S \in SUBSET Siblings(start) : Cardinality(S) <= MaxSiblings} :
    \E d \in {[f \in held |-> f]} :
        /\ self = start
        /\ disk = d
        /\ ret = Constructed(start, d)
        /\ calls = 0
        /\ renames = 0

NextDisk == items

SpecDisk == InitDisk /\ [][NextDisk]_vars


-----------------------------------------------------------------------------
(* The listers of a FileSequence                                           *)

\* FileSequence(path, items, fileInstance=...) on the folder holding the
\* files of some numbers: with a list of items or without, with no
\* fileInstance, a DiskPath or a PerforcePath, in a process that imported
\* the module P4 or could not.
InitLister ==
    \E N \in SUBSET (1..MaxItem), given, p4 \in BOOLEAN,
       sourceFile \in {None, "DiskPath", "PerforcePath"} :
    \E new \in {[NewSequence(File, P(1, 2),
                             IF given THEN PathList(N, 2) ELSE NoneList)
                    EXCEPT !._sourceFile = sourceFile, !.P4 = p4]} :
    \E start \in {_parse_values(new).self} :
        /\ self = start
        /\ disk = Files(N, 2)
        /\ ret = Constructed(start, Files(N, 2))
        /\ calls = 0
        /\ renames = 0

NextLister == items

SpecLister == InitLister /\ [][NextLister]_vars


-----------------------------------------------------------------------------
(* The current item number and the index                                   *)

\* BaseSequence(string, items) on a digits or a placeholder-run source, with
\* no list of items or with the items of some numbers.
InitIndex ==
    \E src \in {<<"s", "0", "1">>, <<"s", "#", "#">>},
       N \in {{NoneNum}} \cup SUBSET (0..2) :
    \E start \in {NewBase(src, N, TRUE)} :
        /\ self = start
        /\ disk = EmptyDict
        /\ ret = Constructed(start, EmptyDict)
        /\ calls = 0
        /\ renames = 0

\* The assignment of currentItemNumber, the build and the reads of the
\* index, the insertion and the deletion of an item.
NextIndex == setcurrent \/ readnumbers \/ setitem \/ delitem

SpecIndex == InitIndex /\ [][NextIndex]_vars

-----------------------------------------------------------------------------
(* The claims about rename and the renderers                               *)

\* The last call was rename; its arguments; the sequence as it read it.
Renamed == ret.op = "rename"

\* The exits of the loop of lines 519-544: the plan ran to its end, stopped
\* at an existing destination, at a failing os.rename, or at progressCB.
Executed == {"done", "collision", "os.rename", "progressCB"}

\* The index rename read has items, each with a number.
Numbered ==
    /\ ret.seen._built
    /\ Len(numbers(ret.seen)) > 0
    /\ \A i \in 1..Len(numbers(ret.seen)) : numbers(ret.seen)[i] >= 0

\* The offset the start frame asks for: S - F, 0 when none is asked.
AskedOffset ==
    IF ret.a.startFrame = NoneNum THEN 0
    ELSE ret.a.startFrame - numbers(ret.seen)[1]

\* The padding asked for: the current one when none is asked.
AskedPadding ==
    IF ret.a.padding = NoneNum THEN ret.seen._padding ELSE ret.a.padding

\* The four cases in which rename has nothing to do, and the call without
\* arguments.
NothingAsked == ret.a.padding = NoneNum /\ ret.a.startFrame = NoneNum

NoItems == ret.seen._built /\ Len(ret.seen._sequence_items) = 0

AlreadyMatches ==
    /\ Numbered
    /\ ret.a.padding \in {NoneNum, ret.seen._padding}
    /\ ret.a.startFrame \in {NoneNum, numbers(ret.seen)[1]}

NoOp == NothingAsked \/ NoItems \/ AlreadyMatches

\* The numbers of the index have a gap.
Gaps == Numbered /\ Len(grouped_numbers(numbers(ret.seen))) > 1

\* The call changed neither the disk nor the source string.
Untouched ==
    /\ disk = ret.before.disk
    /\ self._string = ret.before.self._string

Ascending(nums) == \A i \in 1..(Len(nums) - 1) : nums[i] < nums[i + 1]

Descending(nums) == \A i \in 1..(Len(nums) - 1) : nums[i] > nums[i + 1]

\* The numbers of the items of the plan in the order of execution.
PlanNumbers == [i \in 1..Len(ret.plan) |-> num(ret.seen, ret.plan[i][1])]

\* No destination of the plan is the path of an item that comes later in it.
NoClobber ==
    \A i, j \in 1..Len(ret.plan) : i < j => ret.plan[i][2] # ret.plan[j][1]

\* The plan a second call with the same arguments computes in this state:
\* the guard of lines 476-492 on the index as it is read now, then lines
\* 505-517.
SecondPlan ==
    LET planned(l) ==
            IF l.err # None THEN <<>>
            ELSE IF RenameGuard(l.self, ret.a).exit # "plan" THEN <<>>
            ELSE renamePaths(l.self, ret.a, TRUE)
    IN  planned(_loadSequenceItems(self, disk))

C4_OffsetAndPadding ==
    (Renamed /\ Numbered /\ ~NoOp /\ ~Gaps) =>
        /\ ret.err # "TypeError" \/ ret.exit = "progressCB"
        /\ frameOffset(ret.seen, ret.a) = AskedOffset
        /\ \A i \in 1..Len(ret.plan) :
              ret.plan[i][2] = NewPath(ret.seen, AskedPadding,
                                       PlanNumbers[i] + AskedOffset)

\* C5: with a gap in the numbers and ignoreMissing false, a rename that has
\* work to do raises the error for missing frames, moves nothing and leaves
\* the source string and the index as they were.
C5_GapsRefused ==
    (Renamed /\ Gaps /\ ~ret.a.ignoreMissing /\ ~NoOp) =>
        /\ ret.exit = "missing frames"
        /\ ret.err = "ValueError"
        /\ ret.moves = <<>>
        /\ Untouched
        /\ self._sequence_items = ret.seen._sequence_items

C8_NoOpCases ==
    /\ (Renamed /\ NoOp) =>
            ret.err = None /\ ret.moves = <<>> /\ Untouched
    /\ (Renamed /\ Numbered /\ ~NoOp /\ ~(Gaps /\ ~ret.a.ignoreMissing)) =>
            ret.exit \in Executed

\* The old source string in its own flavor at the padding asked for, for
\* digits at the source number plus the offset the plan was built with.
Rerendered ==
    CASE ret.seen._format_type = "nums" ->
            Join(ZeroPad(sourceNumber(ret.seen) + frameOffset(ret.seen, ret.a),
                         AskedPadding),
                 ret.seen._base_sequence_items)
      [] ret.seen._format_type = "pounds" ->
            Join(PoundSubstr(AskedPadding), ret.seen._base_sequence_items)
      [] ret.seen._format_type = "regex" ->
            Join(RegexSubstr(AskedPadding), ret.seen._base_sequence_items)
      [] ret.seen._format_type = "formatstring" ->
            Join(FormatSubstr(formatStringKey(ret.seen.cls), AskedPadding),
                 ret.seen._base_sequence_items)
      [] ret.seen._format_type = "percent" ->
            Join(PercentSubstr(AskedPadding), ret.seen._base_sequence_items)

FlavorOf ==
    [get_pound_string |-> "pounds", get_regex_string |-> "regex",
     get_format_string |-> "formatstring", get_percent_string |-> "percent"]

\* C10: the string a template renderer returns for a padding P >= 1 is
\* classified as the flavor of the renderer with padding P, and with the
\* prefix and the suffix of the source when the prefix holds no '['.
C10_RoundTrip ==
    LET back(cls, v, old) ==
            /\ v.err = None
            /\ v.match.kind = FlavorOf[ret.op]
            /\ _parse_padding_from_match(cls, v.match) = ret.a.padding
            /\ ~Contains(old.prefix, "[") =>
                  /\ v.match.prefix = old.prefix
                  /\ v.match.suffix = old.suffix
    IN  (ret.op \in DOMAIN FlavorOf /\ ret.a.padding >= 1) =>
            back(ret.seen.cls, validate_path(ret.seen.cls, ret.value),
                 ret.seen._primary_match)

\* The text a renderer puts over the slot for a padding.
SlotText(op, cls, padding) ==
    CASE op = "get_pound_string" -> PoundSubstr(padding)
      [] op = "get_format_string" -> FormatSubstr(formatStringKey(cls), padding)
      [] op = "get_percent_string" -> PercentSubstr(padding)
      [] op = "get_regex_string" -> RegexSubstr(padding)

\* The source string of s with its slot span replaced by text.
OverSlot(s, text) ==
    SubSeq(s._string, 1, s._primary_match.start) \o text
        \o SubSeq(s._string, s._primary_match.end + 1, Len(s._string))

\* C11: every call of a template renderer returns the source with the slot
\* span replaced by the text of its flavor at the padding of that call (the
\* padding of the sequence when none is given), the text before and after
\* the slot being that of the source, whatever was called before.
C11_RenderDependsOnArguments ==
    (ret.op \in DOMAIN FlavorOf /\ ret.err = None) =>
        ret.value = OverSlot(ret.seen,
                             SlotText(ret.op, ret.seen.cls,
                                      IF ret.a.padding = NoneNum
                                      THEN ret.seen._padding ELSE ret.a.padding))

\* The index of the sequence as a read of items gives it now.
IndexNow == Loaded(self).self._sequence_items

IndexLoads == Loaded(self).err = None

Values(od) == {od[i][2] : i \in 1..Len(od)}

Keys(od) == {od[i][1] : i \in 1..Len(od)}

\* C12: for an index built from explicit items and a number n that is one of
\* its keys, get_string(n) returns a value of the index, and num() of that
\* string is n.
C12_GetStringRoundTrip ==
    (/\ ret.op = "get_string"
     /\ IndexLoads
     /\ ret.a.itemNumber \in Keys(IndexNow)) =>
        /\ ret.err = None
        /\ ret.value \in Values(IndexNow)
        /\ num(self, ret.value) = ret.a.itemNumber

\* The integers an interval <<n>> or <<lo, hi>> stands for.
Covered(interval) == interval[1]..interval[Len(interval)]

C14_MissingIsTheGaps ==
    (ret.op = "missing" /\ ret.err = None /\ IndexLoads) =>
        /\ \A i \in 1..(Len(ret.value) - 1) : ret.value[i] < ret.value[i + 1]
        /\ \A n \in 0..MaxNum :
              (\E i \in 1..Len(ret.value) : ret.value[i] = n) <=>
                  /\ n \notin Keys(IndexNow)
                  /\ \E lo, hi \in Keys(IndexNow) : lo < n /\ n < hi
        /\ \A i \in 1..Len(ret.value) : ret.value[i] \in 0..MaxNum

\* A read of missing that returns both numbers of a gap of two.
C14_Witness ==
    /\ ret.op = "missing"
    /\ ret.err = None
    /\ \E i \in 1..(Len(ret.value) - 1) : ret.value[i] + 1 = ret.value[i + 1]

\* The numbers of the index as it is now.
NumbersNow == numbers(Loaded(self).self)

\* C15: after any mutations of the index, a read of range returns the
\* grouping of the numbers of the index as it is at that read, and a read of
\* missing the absent numbers of the index as it is at that read.
C15_ReadsFollowTheIndex ==
    /\ (ret.op = "range" /\ ret.err = None /\ IndexLoads) =>
            ret.value = grouped_numbers(NumbersNow)
    /\ (ret.op = "missing" /\ ret.err = None /\ IndexLoads) =>
            ret.value = missing_numbers(NumbersNow)

Max(S) == CHOOSE x \in S : \A y \in S : y <= x

StrictlyAscending(seq) == \A i \in 1..(Len(seq) - 1) : seq[i] < seq[i + 1]

\* C16: the index holds each key once, every key is a number, and its pairs
\* are in ascending order of their keys after the construction and after
\* every insertion, overwrite and deletion; numbers is strictly ascending
\* and firstItemNumber and lastItemNumber are the smallest and the largest
\* key.
C16_IndexIsSortedByKey ==
    /\ StrictlyAscending(keys(self))
    /\ \A i \in 1..Len(keys(self)) : keys(self)[i] \in 0..MaxNum
    /\ (ret.op = "numbers" /\ ret.err = None) =>
          /\ ret.value.keys = keys(self)
          /\ StrictlyAscending(ret.value.numbers)
          /\ Len(ret.value.numbers) = Len(ret.value.keys)
          /\ IF ret.value.keys = <<>>
             THEN ret.value.first = NoneNum /\ ret.value.last = NoneNum
             ELSE /\ ret.value.first = Min(Keys(self._sequence_items))
                  /\ ret.value.last = Max(Keys(self._sequence_items))

\* An insertion of a new key below the largest key of the index.
C16_Witness ==
    /\ ret.op = "__setitem__"
    /\ ret.err = None
    /\ ~HasKey(ret.before.self._sequence_items, ret.a.index)
    /\ \E i \in 1..Len(keys(self)) : keys(self)[i] > ret.a.index

\* The keys of the index above and below the number asked of
\* get_next_item or get_previous_item.
KeysAbove == {k \in Keys(IndexNow) : k > ret.a.itemNumber}

KeysBelow == {k \in Keys(IndexNow) : k < ret.a.itemNumber}

\* C17: for a key n of the index that is not the largest, get_next_item(n)
\* returns the value of the smallest key above n, with or without gaps in
\* the index; for a key n that is not the smallest, get_previous_item(n)
\* returns the value of the largest key below n.
C17_NeighbourIsAnItem ==
    /\ (/\ ret.op = "get_next_item"
        /\ IndexLoads
        /\ ret.a.itemNumber \in Keys(IndexNow)
        /\ KeysAbove # {}) =>
            /\ ret.err = None
            /\ ret.value = ValueAt(IndexNow, Min(KeysAbove))
    /\ (/\ ret.op = "get_previous_item"
        /\ IndexLoads
        /\ ret.a.itemNumber \in Keys(IndexNow)
        /\ KeysBelow # {}) =>
            /\ ret.err = None
            /\ ret.value = ValueAt(IndexNow, Max(KeysBelow))

\* The number get_next_item and get_previous_item start from: the one
\* given, or the current item number of the sequence.
AskedNumber ==
    IF ret.a.itemNumber = NoneNum THEN ret.seen._current_item_number
    ELSE ret.a.itemNumber

\* C18: get_next_item of the largest key and get_previous_item of the
\* smallest key return None without an exception; both raise ValueError for
\* a number that is no key of the index, and when no number is given and the
\* sequence has no current item number; the index is the same after the
\* call.
C18_EndsAndUnknownNumbers ==
    (ret.op \in {"get_next_item", "get_previous_item"} /\ IndexLoads) =>
        /\ (ret.op = "get_next_item" /\ Keys(IndexNow) # {}
                /\ AskedNumber = Max(Keys(IndexNow))) =>
              ret.err = None /\ ret.value = NoneStr
        /\ (ret.op = "get_previous_item" /\ Keys(IndexNow) # {}
                /\ AskedNumber = Min(Keys(IndexNow))) =>
              ret.err = None /\ ret.value = NoneStr
        /\ AskedNumber \notin Keys(IndexNow) => ret.err = "ValueError"
        /\ IndexNow = Loaded(ret.before.self).self._sequence_items

\* get_next_item of the largest of several keys has returned None.
C18_Witness ==
    /\ ret.op = "get_next_item"
    /\ ret.err = None
    /\ ret.value = NoneStr
    /\ Len(keys(self)) >= 2
    /\ ret.a.itemNumber = Max(Keys(self._sequence_items))

\* The positions of a string where a slot-shaped substring starts: a run of
\* digits or of '#' from its first character, or a template slot.
SlotStarts(s) ==
    {i \in 1..Len(s) :
        /\ SlotAt(s, i) # NoSlot
        /\ ~(i > 1 /\ IsDigitChar(s[i]) /\ IsDigitChar(s[i - 1]))
        /\ ~(i > 1 /\ s[i] = "#" /\ s[i - 1] = "#")}

\* Those that satisfy the anchor of the class: the slot ends the string of
\* a plain sequence; the slot of a path follows a '.' and is followed by the
\* end of the string or by text that ends in an extension.
Anchored(cls, s) ==
    {i \in SlotStarts(s) :
        IF cls = File
        THEN /\ i > 1 /\ s[i - 1] = "."
             /\ SuffixMatches(SubSeq(s, i + SlotAt(s, i).len, Len(s)))
        ELSE i + SlotAt(s, i).len - 1 = Len(s)}

\* The length of the anchor in front of the slot.
AnchorLen(cls) == IF cls = File THEN 1 ELSE 0

\* C19: when a source string with several slot-shaped substrings is
\* classified, the slot is the rightmost substring that satisfies the anchor
\* and the prefix is everything in front of it, for a plain sequence and for
\* a path sequence.
C19_RightmostSlotWins ==
    (/\ ret.op = "validate"
     /\ ret.err = None
     /\ Cardinality(SlotStarts(self._string)) >= 2) =>
        /\ self._primary_match.start + 1 = Max(Anchored(self.cls, self._string))
        /\ self._primary_match.prefix =
              SubSeq(self._string, 1,
                     Max(Anchored(self.cls, self._string)) - 1 - AnchorLen(self.cls))

\* A slot-shaped substring that is a template placeholder with a key other
\* than the one of the class.
WrongKey(cls, s, i) ==
    /\ SlotAt(s, i).kind = "formatstring"
    /\ FormatKeyOf(SubSeq(s, i, i + SlotAt(s, i).len - 1)) # formatStringKey(cls)

FormatTypes == {"nums", "pounds", "regex", "formatstring", "percent"}

-----------------------------------------------------------------------------
(* The claims about the current item and the index of explicit items       *)

\* C21: setting currentItemNumber to an integer v, on a sequence parsed or
\* not, makes currentItemNumber read v and currentItem read v zero-padded at
\* the padding of the sequence; setting a value that is no integer raises
\* TypeError and leaves both as they read before.
C21_SetCurrentItemNumber ==
    ret.op = "currentItemNumber=" =>
        IF ret.a.value = NoneNum
        THEN /\ ret.err = "TypeError"
             /\ Parsed(self).self._current_item_number
                    = Parsed(ret.before.self).self._current_item_number
             /\ Parsed(self).self._current_item
                    = Parsed(ret.before.self).self._current_item
        ELSE /\ ret.err = None
             /\ Parsed(self).self._current_item_number = ret.a.value
             /\ Parsed(self).self._current_item
                    = ZeroPad(ret.a.value, Parsed(self).self._padding)


\* C22: is_part_of_sequence(s) is false whenever s is not as long as the
\* source string, whatever its prefix, its suffix and its number.
C22_PaddingMismatchIsNoPart ==
    (/\ ret.op = "is_part_of_sequence"
     /\ Len(ret.a.string) # Len(self._string)) =>
        /\ ret.err = None
        /\ ret.value = FALSE

\* A string with the prefix, the suffix and the number of a parsed digits
\* source, at another width, was refused.
C22_Witness ==
    /\ ret.op = "is_part_of_sequence"
    /\ self._parsed
    /\ self._format_type = "nums"
    /\ Len(ret.a.string) # Len(self._string)
    /\ startswith(ret.a.string, prefix(self))
    /\ endswith(ret.a.string, suffix(self))
    /\ int(SubSeq(ret.a.string, 3, Len(ret.a.string))) = self._current_item_number
    /\ ret.value = FALSE


\* The explicit items of the sequence and the slot of a string.
Given == {self._input_items[i] : i \in 1..Len(self._input_items)}

SlotSpan(string) ==
    Slice(string, self._primary_match.start, self._primary_match.end)

\* The membership of the sentence: the literal prefix and suffix, and the
\* length of the source string.
Member(string) ==
    /\ Len(string) = Len(self._string)
    /\ startswith(string, prefix(self))
    /\ endswith(string, suffix(self))

\* C23: when the index is built from explicit items, a candidate is stored
\* if and only if it has the prefix and the suffix of the sequence, the
\* length of the source string and digits over the whole slot, and its key
\* is the number of the slot; a build that raises stores nothing and was
\* given a candidate that fails the membership.
C23_StoredIffMember ==
    ret.op = "items" =>
        IF ret.err = None
        THEN /\ \A i \in 1..Len(self._sequence_items) :
                    LET k == self._sequence_items[i][1]
                        v == self._sequence_items[i][2]
                    IN  v # self._string =>
                            /\ v \in Given
                            /\ Member(v)
                            /\ isdigit(SlotSpan(v))
                            /\ k = int(SlotSpan(v))
             /\ \A c \in Given :
                    (Member(c) /\ isdigit(SlotSpan(c))) =>
                        \E i \in 1..Len(self._sequence_items) :
                            self._sequence_items[i] = <<int(SlotSpan(c)), c>>
        ELSE /\ ret.err = "ValueError"
             /\ \E c \in Given : ~Member(c)
             /\ self._sequence_items = <<>>


\* C24: when the index is built from explicit items and the source string
\* is of the digits flavor with the number n, 0 included, the index holds
\* the key n with the source string as its value, whether the source string
\* is among the explicit items or not.
C24_SourceNumberIsIncluded ==
    (/\ ret.op \in {"numbers", "items"}
     /\ ret.err = None
     /\ self._input_items # NoneList
     /\ self._format_type = "nums") =>
        /\ HasKey(self._sequence_items, int(self._current_item))
        /\ ValueAt(self._sequence_items, int(self._current_item)) = self._string


\* What the accessors of the sequence s return, each read on s as it is:
\* padding, prefix, suffix, flavor, current number, items, range and the
\* pattern string, or the exception of the read.
Accessors(s) ==
    [parsed  |-> IF Parsed(s).err # None THEN <<Parsed(s).err>>
                 ELSE <<Parsed(s).self._padding, Parsed(s).self._format_type,
                        Parsed(s).self._current_item_number,
                        Parsed(s).self._current_item>>,
     prefix  |-> <<prefixProperty(s).err, prefixProperty(s).value>>,
     suffix  |-> <<suffixProperty(s).err, suffixProperty(s).value>>,
     items   |-> <<Loaded(s).err, Loaded(s).self._sequence_items>>,
     range   |-> <<AbstractRange(s).err, AbstractRange(s).value>>,
     pattern |-> IF s._regex_string # NoneStr THEN s._regex_string
                 ELSE IF Parsed(s).err # None THEN <<Parsed(s).err>>
                 ELSE get_regex_string(Parsed(s).self, NoneNum)]

\* The sequence constructed anew from the source string and the list of
\* items of the sequence as it is.
Fresh == NewSequence(self.cls, self._string, self._input_items)

\* C25: the sequence never holds more than one match, and right after
\* setSource, setItems or reload every accessor returns what it returns on
\* a sequence constructed from the source string and the list of items the
\* sequence now has, whatever was read and kept before.
C25_InvalidationDropsWhatWasKept ==
    /\ self._matches <= 1
    /\ ret.op \in {"setSource", "setItems", "reload"} =>
            Accessors(self) = Accessors(Fresh)

\* A sequence that had kept its range and its pattern string was given
\* another source string, and reads another padding, prefix and pattern
\* string than before.
C25_Witness ==
    /\ ret.op = "setSource"
    /\ ret.err = None
    /\ ret.before.self._range # RangeNone
    /\ ret.before.self._regex_string # NoneStr
    /\ self._matches = 1
    /\ Accessors(self).parsed # Accessors(ret.before.self).parsed
    /\ Accessors(self).prefix # Accessors(ret.before.self).prefix
    /\ Accessors(self).pattern # Accessors(ret.before.self).pattern


\* C26: an index built from the folder holds a file of the folder if and
\* only if the file has the prefix and the suffix of the sequence, the
\* length of the source path and digits over the whole slot, whatever the
\* suffix of the source path, the empty suffix included.
C26_FolderIndexIsTheMembers ==
    (/\ ret.op = "items"
     /\ ret.err = None
     /\ self._input_items = NoneList) =>
        \A e \in DOMAIN disk :
            (\E i \in 1..Len(self._sequence_items) : self._sequence_items[i][2] = e)
                <=> (Member(e) /\ isdigit(SlotSpan(e)))


\* The source of the sequence s is one the depot handles: the module P4 was
\* imported and the source file is a PerforcePath.
Tracked(s) == s.P4 /\ s._sourceFile = "PerforcePath"

\* C27: the build of the index of a FileSequence calls exactly one lister:
\* the explicit items if a list was given, otherwise the depot if the
\* source is tracked, otherwise the folder; the sequence is built after it,
\* and a later access calls no lister.
C27_ListersInPriorityOrder ==
    (ret.op = "items" /\ ret.err = None) =>
        /\ self._built
        /\ ret.value =
              IF ret.before.self._built THEN None
              ELSE IF ret.before.self._input_items # NoneList THEN "input"
              ELSE IF Tracked(ret.before.self) THEN "perforce"
              ELSE "disk"


-----------------------------------------------------------------------------
(* The claims about the plan and the moves of rename                       *)

Contents(d) == {d[path] : path \in DOMAIN d}

C29_KeysAreTheNumbersOfTheValues ==
    self._built =>
        /\ \A i \in 1..Len(self._sequence_items) :
                /\ self._sequence_items[i][1] >= 0
                /\ num(self, self._sequence_items[i][2]) = self._sequence_items[i][1]
        /\ numbers(self) = keys(self)

-----------------------------------------------------------------------------
(* What does hold                                                          *)

\* Under Spec no call of rename reaches os.rename: the disk never changes.
NothingIsEverMoved == disk = ret.before.disk /\ ret.moves = <<>>

\* Under Spec a rename with work to do on a complete index ends with an
\* exception: TypeError at line 488 when the padding is None, ValueError for
\* missing frames, AttributeError at line 510 otherwise.
WorkAlwaysRaises ==
    (Renamed /\ Numbered /\ ~NoOp) =>
        /\ ret.err \in {"TypeError", "ValueError", "AttributeError"}
        /\ ret.exit \in {"int(padding)", "missing frames", "item.path"}

\* The no-op cases return without an exception, a move or a change of the
\* source string.
NoOpCasesReturn ==
    (Renamed /\ NoOp) => ret.err = None /\ ret.moves = <<>> /\ Untouched

\* With the paths of the files in the plan, no destination is the path of an
\* item that comes later in the plan.
PlanNeverClobbers == (Renamed /\ ret.exit \in Executed) => NoClobber

\* A dry run changes no file.
DryRunKeepsDisk == (Renamed /\ ret.a.dryrun) => disk = ret.before.disk

\* The first rendering of a FileSequence in a template flavor is classified
\* as that flavor with the padding asked for.
FirstFileRenderingRoundTrips ==
    (/\ ret.op \in DOMAIN FlavorOf
     /\ ret.a.padding >= 1
     /\ ret.seen.cls = File
     /\ ret.before.self._regex_string = NoneStr) => C10_RoundTrip

\* Every call of get_pound_string, get_format_string and get_percent_string,
\* and the first call of get_regex_string, returns the source with the slot
\* replaced for the padding of the call.
UnkeptRenderingsFollowArguments ==
    (ret.op = "get_regex_string" => ret.before.self._regex_string = NoneStr)
        => C11_RenderDependsOnArguments

\* get_string(n) of a key n is the item of n when the source string holds no
\* brace outside its slot.
BraceFreeGetStringRoundTrips ==
    (~Contains(self._string, "{") /\ ~Contains(self._string, "}"))
        => C12_GetStringRoundTrip

\* missing is computed at every read; range is the grouping of the current
\* index when nothing was kept before the read.
UnkeptReadsFollowTheIndex ==
    (ret.op = "range" => ret.before.self._range = RangeNone)
        => C15_ReadsFollowTheIndex

\* get_next_item(n) and get_previous_item(n) return the neighbour of n in
\* the index when n + 1, or n - 1, is a key, and the source string holds no
\* brace outside its slot.
AdjacentNeighbourIsAnItem ==
    (/\ ~Contains(self._string, "{") /\ ~Contains(self._string, "}")
     /\ ret.op = "get_next_item" => ret.a.itemNumber + 1 \in Keys(IndexNow)
     /\ ret.op = "get_previous_item" => ret.a.itemNumber - 1 \in Keys(IndexNow))
        => C17_NeighbourIsAnItem

\* The slot of a plain sequence is the rightmost slot-shaped substring of its
\* source string; the slot of a path sequence is the leftmost one that
\* satisfies the anchor.
PlainSlotIsRightmostFileSlotLeftmost ==
    (/\ ret.op = "validate"
     /\ ret.err = None
     /\ Cardinality(SlotStarts(self._string)) >= 2) =>
        IF self.cls = File
        THEN self._primary_match.start + 1 = Min(Anchored(File, self._string))
        ELSE C19_RightmostSlotWins


\* The setter of currentItemNumber does what it says on every sequence
\* already parsed, and on every template.
ParsedSetterKeepsValue ==
    (/\ ret.op = "currentItemNumber="
     /\ ret.a.value # NoneNum
     /\ \/ ret.before.self._parsed
        \/ self._format_type # "nums") =>
        /\ ret.err = None
        /\ self._current_item_number = ret.a.value
        /\ self._current_item = ZeroPad(ret.a.value, self._padding)


\* Every candidate whose slot holds digits only is stored if and only if it
\* passes the membership, under the number of its slot; a candidate with
\* anything else in its slot is stored under the key None.
DigitCandidatesStoredIffMember ==
    (ret.op = "items" /\ ret.err = None) =>
        /\ \A c \in Given :
                isdigit(SlotSpan(c)) =>
                    (Member(c) <=>
                        \E i \in 1..Len(self._sequence_items) :
                            self._sequence_items[i] = <<int(SlotSpan(c)), c>>)
        /\ \A i \in 1..Len(self._sequence_items) :
                \/ self._sequence_items[i][2] = self._string
                \/ /\ self._sequence_items[i][2] \in Given
                   /\ Member(self._sequence_items[i][2])
                   /\ self._sequence_items[i][1] =
                         IF isdigit(SlotSpan(self._sequence_items[i][2]))
                         THEN int(SlotSpan(self._sequence_items[i][2]))
                         ELSE NoneNum


\* The source string of the digits flavor is in the index built from
\* explicit items whenever its number is not 0, and for every number when
\* the sequence is a FileSequence.
NonZeroSourceNumberIsIncluded ==
    (/\ ret.op \in {"numbers", "items"}
     /\ ret.err = None
     /\ self._input_items # NoneList
     /\ self._format_type = "nums"
     /\ (self.cls = File \/ int(self._current_item) # 0)) =>
        /\ HasKey(self._sequence_items, int(self._current_item))
        /\ ValueAt(self._sequence_items, int(self._current_item)) = self._string


\* The index built from the folder holds exactly the members with digits
\* over the slot when the source path has a suffix, and nothing at all when
\* it has none.
FolderIndexWithSuffix ==
    (/\ ret.op = "items"
     /\ ret.err = None
     /\ self._input_items = NoneList) =>
        IF suffix(self) = <<>> THEN self._sequence_items = <<>>
        ELSE \A e \in DOMAIN disk :
                IF Member(e) /\ isdigit(SlotSpan(e))
                THEN \E i \in 1..Len(self._sequence_items) :
                        self._sequence_items[i] = <<int(SlotSpan(e)), e>>
                ELSE \A i \in 1..Len(self._sequence_items) :
                        self._sequence_items[i][2] # e


\* The build calls the explicit items if a list was given and the folder
\* otherwise, never the depot; a later access calls no lister.
ListerIsItemsOrFolder ==
    (ret.op = "items" /\ ret.err = None) =>
        /\ self._built
        /\ ret.value =
              IF ret.before.self._built THEN None
              ELSE IF ret.before.self._input_items # NoneList THEN "input"
              ELSE "disk"


\* With replace false no move of the loop of rename is made onto a path that
\* holds a file, and a call that undoes nothing destroys no file.
ForwardMovesDestroyNothing ==
    (Renamed /\ ~ret.a.replace) =>
        /\ \A i \in 1..Len(ret.moves) :
                ret.moves[i].phase = "forward" => ~ret.moves[i].clobbers
        /\ (\A i \in 1..Len(ret.moves) : ret.moves[i].phase = "forward") =>
                /\ Cardinality(DOMAIN disk) = Cardinality(DOMAIN ret.before.disk)
                /\ Contents(disk) = Contents(ret.before.disk)


\* Every entry of the index but the one of the source string has the number
\* of its value as its key.
KeysOfTheItemsAreTheirNumbers ==
    self._built =>
        \A i \in 1..Len(self._sequence_items) :
            self._sequence_items[i][2] # self._string =>
                /\ self._sequence_items[i][1] >= 0
                /\ num(self, self._sequence_items[i][2]) = self._sequence_items[i][1]

====
